---- MODULE Spec2Model ----
(***************************************************************************)
(* Model of the data-access layer of hv (database.go): credential store,  *)
(* session-token ledger and their callers.                                 *)
(*                                                                         *)
(* Strings are sequences of one-character strings, so that validity and   *)
(* the NOCASE collation are computed character by character.  Random      *)
(* values (tokens, salts) are fresh names; a digest is the tuple of its   *)
(* inputs (no collisions).                                                 *)
(***************************************************************************)
EXTENDS Integers, Sequences, FiniteSets, TLC

\* ------------------------------------------------------------------ bounds
\* Spec: successful logins and logouts in one behaviour
MaxLogins == 3
MaxLogouts == 1
\* SpecCap: successful logins beyond MaxTokensPerUser, and successful logouts
CapSlack == 1
CapLogouts == 1
\* rows of the Users table
MaxUsers == 2
\* SpecConc: calls started in one behaviour, and request goroutines
MaxConcOps == 4
NumProcs == 2
\* SpecLib: doujins imported, successful logins and tag sets created, in all
MaxLibWrites == 3
\* SpecTagSets: tag sets created, and successful logins of one user
MaxTagSets == 2
MaxTagSetLogins == 1
\* SpecJson: characters of a text
MaxJsonLength == 6
\* SpecMass: entries of a top folder
MaxEntries == 3

\* ------------------------------------------------------- program constants
SessionTokenLength == 30
MaxTokensPerUser == 20

\* --------------------------------------------------------------- inputs
UpperLetters == <<"A","B","C","D","E","F","G","H","I","J","K","L","M",
                  "N","O","P","Q","R","S","T","U","V","W","X","Y","Z">>
LowerLetters == <<"a","b","c","d","e","f","g","h","i","j","k","l","m",
                  "n","o","p","q","r","s","t","u","v","w","x","y","z">>
Digits == {"0","1","2","3","4","5","6","7","8","9"}

\* the usernames and passwords the callers try
Usernames == { <<"a">>, <<"A">>, <<"b">>, <<>>, <<"a", "!">> }
Passwords == { <<>>, <<"p">>, <<"q">> }
\* SpecCap: the passwords users register with
CapPasswords == { <<>>, <<"p">> }

\* characters that are no ASCII letter, digit, '.', '_' or '-'; "U+00E9" (e with
\* acute) and "U+0410" (Cyrillic A) stand for one non-ASCII letter each
OtherCharacters == { " ", "!", "+", "/", ":", "@", "[", "^", "{", "~", "U+00E9", "U+0410" }

\* ------------------------------------------------------ string functions
allowedCharacters == {
    "A", "a", "B", "b", "C", "c", "D", "d", "E", "e",
    "F", "f", "G", "g", "H", "h", "I", "i", "J", "j",
    "K", "k", "L", "l", "M", "m", "N", "n", "O", "o",
    "P", "p", "Q", "q", "R", "r", "S", "s", "T", "t",
    "U", "u", "V", "v", "W", "w", "X", "x", "Y", "y",
    "Z", "z", "0", "1", "2", "3", "4", "5", "6", "7",
    "8", "9", ".", "_", "-" }

\* faulty variant: the length check is missing
isUsernameValid_NoLength(username) ==
    \A i \in 1..Len(username) : username[i] \in allowedCharacters

isUsernameValid(username) ==
    /\ Len(username) >= 1
    /\ \A i \in 1..Len(username) : username[i] \in allowedCharacters

isPasswordValid(password) == Len(password) > 0

\* SQLite's NOCASE collation folds the 26 ASCII upper-case letters
UpperToLower ==
    [c \in { UpperLetters[i] : i \in 1..26 } |->
        LowerLetters[CHOOSE i \in 1..26 : UpperLetters[i] = c]]

FoldChar(c) == IF c \in DOMAIN UpperToLower THEN UpperToLower[c] ELSE c

Fold(s) == [i \in 1..Len(s) |-> FoldChar(s[i])]

\* faulty variant: the comparison uses the default (binary) collation
EqNoCase_Binary(a, b) == a = b

EqNoCase(a, b) == Fold(a) = Fold(b)

\* ------------------------------------------------------------- digests
\* the length of base64.URLEncoding.EncodeToString of n bytes (with padding)
base64encodeLen(n) == ((n + 2) \div 3) * 4

\* the length of randomString(n)
randomStringLen(n) == base64encodeLen(n)

hashPassword(password, salt) == <<"argon2id", password, salt>>

hashToken(token, salt) == <<"sha256", token, salt>>

\* --------------------------------------------------------- SessionTokens
\* the session_tokens column: the empty string or a JSON array of pairs
EmptyString == [enc |-> "empty", slice |-> <<>>]

NewSessionTokens(slice) == [enc |-> "json", slice |-> slice]

ToSlice(tokens) == IF tokens.enc = "empty" THEN <<>> ELSE tokens.slice

\* faulty variant: the stored digest is computed without the salt
AppendNew_Unsalted(tokens, token, salt) ==
    LET appended == Append(ToSlice(tokens), <<hashToken(token, 0), salt>>)
    IN  NewSessionTokens(IF Len(appended) >= MaxTokensPerUser
                         THEN Tail(appended) ELSE appended)

\* faulty variant: the oldest entry is never dropped
AppendNew_NoEvict(tokens, token, salt) ==
    NewSessionTokens(Append(ToSlice(tokens), <<hashToken(token, salt), salt>>))

AppendNew(tokens, token, salt) ==
    LET appended == Append(ToSlice(tokens), <<hashToken(token, salt), salt>>)
        kept == IF Len(appended) >= MaxTokensPerUser
                THEN Tail(appended) ELSE appended
    IN  NewSessionTokens(kept)

\* faulty variant: the scan result is ignored and the first entry is removed
RemoveToken_First(tokens, token) ==
    IF ~\E i \in 1..Len(ToSlice(tokens)) :
            hashToken(token, ToSlice(tokens)[i][2]) = ToSlice(tokens)[i][1]
    THEN [err |-> "UnknownToken", tokens |-> tokens]
    ELSE [err |-> "OK", tokens |-> NewSessionTokens(Tail(ToSlice(tokens)))]

\* faulty variant: tokenIndex starts at the first entry instead of -1
RemoveToken_NoCheck(tokens, token) ==
    LET slice == ToSlice(tokens)
        hits == { i \in 1..Len(slice) : hashToken(token, slice[i][2]) = slice[i][1] }
        k == IF hits = {} THEN 1 ELSE CHOOSE i \in hits : \A j \in hits : i <= j
    IN  IF slice = <<>>
        THEN [err |-> "UnknownToken", tokens |-> tokens]
        ELSE [err |-> "OK",
              tokens |-> NewSessionTokens([i \in 1..(Len(slice) - 1) |->
                                              IF i < k THEN slice[i] ELSE slice[i + 1]])]

\* index of the first entry the token matches, 0 when there is none
tokenIndex(tokens, token) ==
    LET slice == ToSlice(tokens)
        hits == { i \in 1..Len(slice) : hashToken(token, slice[i][2]) = slice[i][1] }
    IN  IF hits = {} THEN 0 ELSE CHOOSE i \in hits : \A j \in hits : i <= j

DeleteAt(slice, k) ==
    [i \in 1..(Len(slice) - 1) |-> IF i < k THEN slice[i] ELSE slice[i + 1]]

RemoveToken(tokens, token) ==
    IF tokenIndex(tokens, token) = 0
    THEN [err |-> "UnknownToken", tokens |-> tokens]
    ELSE [err |-> "OK",
          tokens |-> NewSessionTokens(DeleteAt(ToSlice(tokens), tokenIndex(tokens, token)))]

HasToken(tokens, token) ==
    \E i \in 1..Len(ToSlice(tokens)) :
        hashToken(token, ToSlice(tokens)[i][2]) = ToSlice(tokens)[i][1]

\* ------------------------------------------------------------------ state
VARIABLES
    Users,      \* the Users table: rows in rowid order
    ret,        \* what the last finished call returned
    issued,     \* per folded username, how many tokens were generated for it
    returned,   \* the tokens successful logins have returned
    revoked,    \* the tokens whose logout returned ok
    procs,      \* SpecConc: the calls in flight, one per request goroutine
    started,    \* SpecConc: how many calls were started
    Doujins,    \* the Doujins table: rows in rowid order
    DoujinPages, \* the DoujinPages table: rows in rowid order
    TagSets,    \* the TagSets table: its rows and its AUTOINCREMENT sequence
    data,       \* the payload the last finished call returned
    search,     \* SpecImport: the SearchDoujins call in flight
    importing   \* SpecImport: the RegisterDoujin call in flight

libVars == <<Doujins, DoujinPages, TagSets, data, search, importing>>

vars == <<Users, ret, issued, returned, revoked, procs, started, libVars>>

ValidUsernames == { u \in Usernames : isUsernameValid(u) }
FoldedNames == { Fold(u) : u \in ValidUsernames }

\* the k-th token generated for a (folded) username, and the salt drawn with it
Token(name, k) == <<name, k>>
Salt(name, k) == k
NoToken == <<<<>>, 0>>

\* the token and salt the next login with this username draws
NextSerial(username) ==
    IF Fold(username) \in DOMAIN issued THEN issued[Fold(username)] + 1 ELSE 1
FreshToken(username) == Token(Fold(username), NextSerial(username))
FreshSalt(username) == Salt(Fold(username), NextSerial(username))

\* the tokens the callers present: one that was issued, or none
TokenInputs ==
    { Token(n, k) : n \in FoldedNames, k \in 1..MaxLogins } \cup { NoToken }

\* SpecCap: the caller that logs out holds the token of a user's first session
CapTokenInputs == { Token(n, 1) : n \in FoldedNames } \cup { NoToken }

\* every token a login has generated so far
IssuedTokens == { t \in FoldedNames \X (1..(MaxTokensPerUser + CapSlack + MaxLogins)) :
                    t[2] <= issued[t[1]] }

\* ------------------------------------------------------------ SQL statements
\* SELECT ... FROM Users WHERE username = ? COLLATE NOCASE, read by QueryRow:
\* the index of the first matching row, 0 for sql.ErrNoRows
SelectUser(users, username) ==
    LET hits == { i \in 1..Len(users) : EqNoCase(users[i].username, username) }
    IN  IF hits = {} THEN 0 ELSE CHOOSE i \in hits : \A j \in hits : i <= j

\* UPDATE Users SET session_tokens = ? WHERE username = ? COLLATE NOCASE
UpdateTokens(users, username, tokens) ==
    [i \in 1..Len(users) |->
        IF EqNoCase(users[i].username, username)
        THEN [users[i] EXCEPT !.session_tokens = tokens]
        ELSE users[i]]

\* INSERT INTO Users (username, password_hash, password_salt, session_tokens)
InsertUser(users, username, password) ==
    Append(users, [id |-> Len(users) + 1,
                   username |-> username,
                   password_hash |-> hashPassword(password, Len(users) + 1),
                   password_salt |-> Len(users) + 1,
                   session_tokens |-> EmptyString])

\* ------------------------------------------------- the Database's methods
\* each is a function of the table and the arguments (and of the random
\* values it draws) to the error it returns and the table it leaves
\* faulty variant: the token is looked up in the list of every user
authenticateUser_AnyUser(users, username, token) ==
    LET r == SelectUser(users, username)
    IN  IF r = 0 THEN [id |-> 0, err |-> "InexistentUser"]
        ELSE IF \A i \in 1..Len(users) : ~HasToken(users[i].session_tokens, token)
             THEN [id |-> 0, err |-> "InvalidToken"]
             ELSE [id |-> users[r].id, err |-> "OK"]

authenticateUser(users, username, token) ==
    LET r == SelectUser(users, username)
    IN  IF r = 0 THEN [id |-> 0, err |-> "InexistentUser"]
        ELSE IF ~HasToken(users[r].session_tokens, token)
             THEN [id |-> 0, err |-> "InvalidToken"]
             ELSE [id |-> users[r].id, err |-> "OK"]

RegisterUser(users, username, password) ==
    IF ~isUsernameValid(username)
    THEN [err |-> "DisallowedUsername", users |-> users]
    ELSE IF ~isPasswordValid(password)
    THEN [err |-> "DisallowedPassword", users |-> users]
    ELSE IF SelectUser(users, username) # 0
    THEN [err |-> "ExistentUser", users |-> users]
    ELSE [err |-> "OK", users |-> InsertUser(users, username, password)]

LoginUser(users, username, password, token, salt) ==
    LET r == SelectUser(users, username)
    IN  IF r = 0
        THEN [err |-> "InexistentUser", token |-> NoToken, users |-> users]
        ELSE IF hashPassword(password, users[r].password_salt) # users[r].password_hash
        THEN [err |-> "InvalidPassword", token |-> NoToken, users |-> users]
        ELSE [err |-> "OK", token |-> token,
              users |-> UpdateTokens(users, username,
                            AppendNew(users[r].session_tokens, token, salt))]

LogoutUser(users, username, token) ==
    LET r == SelectUser(users, username)
    IN  IF r = 0
        THEN [err |-> "InexistentUser", users |-> users]
        ELSE IF RemoveToken(users[r].session_tokens, token).err = "UnknownToken"
        THEN [err |-> "InvalidToken", users |-> users]
        ELSE [err |-> "OK",
              users |-> UpdateTokens(users, username,
                            RemoveToken(users[r].session_tokens, token).tokens)]

\* ------------------------------------------------- the library: column texts
\* A time.Time of the metadata is an instant (hours since an epoch) and the
\* zone offset (hours) it was written with.  Format(time.RFC3339) prints the
\* local date and time in fixed-width fields, then "Z" or the signed offset.
FormatRFC3339(t) ==
    [local |-> t.instant + t.offset,
     zone |-> IF t.offset = 0 THEN "Z" ELSE IF t.offset > 0 THEN "+" ELSE "-",
     hours |-> IF t.offset >= 0 THEN t.offset ELSE 0 - t.offset]

\* the byte a zone suffix starts with
ZoneByte(z) == IF z = "+" THEN 43 ELSE IF z = "-" THEN 45 ELSE 90

\* upload_date is a TEXT column: ORDER BY compares it byte by byte
TextLess(a, b) ==
    \/ a.local < b.local
    \/ /\ a.local = b.local
       /\ \/ ZoneByte(a.zone) < ZoneByte(b.zone)
          \/ a.zone = b.zone /\ a.hours < b.hours

\* a Go []string: nil, or its elements
NilSlice == [isNil |-> TRUE, elems |-> <<>>]
StringSlice(elems) == [isNil |-> FALSE, elems |-> elems]

\* json.Marshal of a []string: "null" for nil, else a JSON array
jsonEncode(v) ==
    IF v.isNil THEN [enc |-> "null", elems |-> <<>>]
    ELSE [enc |-> "array", elems |-> v.elems]

\* json.Unmarshal into a []string
jsonUnmarshal(text) ==
    IF text.enc = "null" THEN NilSlice ELSE StringSlice(text.elems)

\* the non-NULL values of json_each(text): "null" yields one row whose value
\* is NULL, which equals no parameter
json_each(text) ==
    IF text.enc = "null" THEN {} ELSE { text.elems[k] : k \in 1..Len(text.elems) }

\* json_each(text) has a row whose value is NULL
json_each_null(text) == text.enc = "null"

\* faulty variant: the query is put into the pattern as it is
escapeSqlLike_None(s) == s

RECURSIVE escapeSqlLike(_)
escapeSqlLike(s) ==
    IF s = <<>> THEN <<>>
    ELSE (IF Head(s) \in {"\\", "%", "_"} THEN <<"\\", Head(s)>> ELSE <<Head(s)>>)
            \o escapeSqlLike(Tail(s))

\* faulty variant: letters are compared exactly
RECURSIVE Like_CaseSensitive(_, _)
Like_CaseSensitive(pattern, text) ==
    IF pattern = <<>> THEN text = <<>>
    ELSE IF Head(pattern) = "%"
    THEN \E k \in 0..Len(text) :
            Like_CaseSensitive(Tail(pattern), SubSeq(text, k + 1, Len(text)))
    ELSE IF text = <<>> THEN FALSE
    ELSE IF Head(pattern) = "_" THEN Like_CaseSensitive(Tail(pattern), Tail(text))
    ELSE IF Head(pattern) = "\\"
    THEN /\ Len(pattern) >= 2
         /\ pattern[2] = Head(text)
         /\ Like_CaseSensitive(SubSeq(pattern, 3, Len(pattern)), Tail(text))
    ELSE Head(pattern) = Head(text) /\ Like_CaseSensitive(Tail(pattern), Tail(text))

\* text LIKE pattern ESCAPE '\': '%' matches any run of characters, '_' any one
\* character, the character after '\' itself; ASCII letters match in either case
RECURSIVE Like(_, _)
Like(pattern, text) ==
    IF pattern = <<>> THEN text = <<>>
    ELSE IF Head(pattern) = "%"
    THEN \E k \in 0..Len(text) : Like(Tail(pattern), SubSeq(text, k + 1, Len(text)))
    ELSE IF text = <<>> THEN FALSE
    ELSE IF Head(pattern) = "_" THEN Like(Tail(pattern), Tail(text))
    ELSE IF Head(pattern) = "\\"
    THEN /\ Len(pattern) >= 2
         /\ FoldChar(pattern[2]) = FoldChar(Head(text))
         /\ Like(SubSeq(pattern, 3, Len(pattern)), Tail(text))
    ELSE FoldChar(Head(pattern)) = FoldChar(Head(text)) /\ Like(Tail(pattern), Tail(text))

\* ------------------------------------------------------- the import pipeline
\* index of the final dot of a file name, 0 when it has none
LastDot(fileName) ==
    LET dots == { k \in 1..Len(fileName) : fileName[k] = "." }
    IN  IF dots = {} THEN 0 ELSE CHOOSE k \in dots : \A j \in dots : j <= k

removeExtension(fileName) ==
    IF LastDot(fileName) # 0 THEN SubSeq(fileName, 1, LastDot(fileName) - 1) ELSE fileName

DigitValue == [c \in Digits |->
    CASE c = "0" -> 0 [] c = "1" -> 1 [] c = "2" -> 2 [] c = "3" -> 3 [] c = "4" -> 4
      [] c = "5" -> 5 [] c = "6" -> 6 [] c = "7" -> 7 [] c = "8" -> 8 [] c = "9" -> 9]

RECURSIVE DecimalValue(_)
DecimalValue(s) ==
    IF s = <<>> THEN 0
    ELSE 10 * DecimalValue(SubSeq(s, 1, Len(s) - 1)) + DigitValue[s[Len(s)]]

\* a digit string without its leading zeros
RECURSIVE StripZeros(_)
StripZeros(s) ==
    IF s # <<>> /\ Head(s) = "0" THEN StripZeros(Tail(s)) ELSE s

\* the digits of 2^32
UintRange == <<4, 2, 9, 4, 9, 6, 7, 2, 9, 6>>

\* the value of a digit string does not fit 32 bits
OutOfRange(s) ==
    LET d == StripZeros(s)
    IN  \/ Len(d) > Len(UintRange)
        \/ /\ Len(d) = Len(UintRange)
           /\ \/ \A k \in 1..Len(d) : DigitValue[d[k]] = UintRange[k]
              \/ \E k \in 1..Len(d) :
                    /\ DigitValue[d[k]] > UintRange[k]
                    /\ \A j \in 1..(k - 1) : DigitValue[d[j]] = UintRange[j]

\* strconv.ParseUint(s, 10, 32): -1 stands for an error
ParseUint(s) ==
    IF s = <<>> \/ \E k \in 1..Len(s) : s[k] \notin Digits THEN -1
    ELSE IF OutOfRange(s) THEN -1
    ELSE DecimalValue(s)

pageNameToPageNumber(fileName) == ParseUint(removeExtension(fileName))

\* faulty variant: the page numbers are left in the order of the entries
SortInts_None(s) == s

\* sort.Ints
RECURSIVE SortInts(_)
SortInts(s) ==
    IF s = <<>> THEN <<>>
    ELSE LET k == CHOOSE i \in 1..Len(s) : \A j \in 1..Len(s) : s[i] <= s[j]
         IN  <<s[k]>> \o SortInts([i \in 1..(Len(s) - 1) |-> IF i < k THEN s[i] ELSE s[i + 1]])

\* INSERT INTO Doujins (...): the columns the search reads, and pages
InsertDoujin(doujins, meta) ==
    Append(doujins, [id |-> Len(doujins) + 1,
                     title |-> meta.title,
                     subtitle |-> meta.subtitle,
                     upload_date |-> FormatRFC3339(meta.upload_date),
                     tags |-> jsonEncode(meta.tags),
                     pages |-> meta.pages])

\* the rows the loop over the folder's entries inserts in its transaction
RECURSIVE InsertPages(_, _, _, _)
InsertPages(pages, doujinId, folderPath, entries) ==
    IF entries = <<>> THEN pages
    ELSE LET e == Head(entries)
             pageNumber == pageNameToPageNumber(e.name)
         IN  IF e.isDir \/ pageNumber = -1
             THEN InsertPages(pages, doujinId, folderPath, Tail(entries))
             ELSE InsertPages(Append(pages, [id |-> Len(pages) + 1,
                                             doujin_id |-> doujinId,
                                             page_path |-> <<folderPath, e.name>>,
                                             page_number |-> pageNumber]),
                              doujinId, folderPath, Tail(entries))

\* the page numbers of the rows the transaction inserted, in insertion order
importedPages(before, after) ==
    [k \in 1..(Len(after) - Len(before)) |-> after[Len(before) + k].page_number]

\* what RegisterDoujin returns and leaves in the two tables; expected and
\* found are the numbers of the "not sequential" message, 0 otherwise
Imported(err, doujins, pages, expected, found) ==
    [err |-> err, Doujins |-> doujins, DoujinPages |-> pages,
     expected |-> expected, found |-> found]

\* faulty variant: the sequence of the page numbers is not examined
FirstMismatch_None(sorted) == 0

\* the first index of the sorted page numbers that does not hold its own
\* number, 0 when there is none
FirstMismatch(sorted) ==
    LET off == { i \in 1..Len(sorted) : sorted[i] # i }
    IN  IF off = {} THEN 0 ELSE CHOOSE i \in off : \A j \in off : i <= j

\* faulty variant: the page rows stay when the checks fail
ImportPages_NoRollback(doujins, pages, folder) ==
    LET inserted == InsertPages(pages, Len(doujins), folder.path, folder.entries)
        imported == importedPages(pages, inserted)
        sorted == SortInts(imported)
        i == FirstMismatch(sorted)
    IN  IF Len(imported) < folder.meta.pages
        THEN Imported("MissingPages", doujins, inserted, 0, 0)
        ELSE IF Len(imported) > folder.meta.pages
        THEN Imported("TooManyPages", doujins, inserted, 0, 0)
        ELSE IF i # 0
        THEN Imported("NotSequential", doujins, inserted, i, sorted[i])
        ELSE Imported("OK", doujins, inserted, 0, 0)

\* RegisterDoujin from its INSERT INTO Doujins on: the transaction's outcome
ImportPages(doujins, pages, folder) ==
    LET inserted == InsertPages(pages, Len(doujins), folder.path, folder.entries)
        imported == importedPages(pages, inserted)
        sorted == SortInts(imported)
        i == FirstMismatch(sorted)
    IN  IF Len(imported) < folder.meta.pages
        THEN Imported("MissingPages", doujins, pages, 0, 0)
        ELSE IF Len(imported) > folder.meta.pages
        THEN Imported("TooManyPages", doujins, pages, 0, 0)
        ELSE IF i # 0
        THEN Imported("NotSequential", doujins, pages, i, sorted[i])
        ELSE Imported("OK", doujins, inserted, 0, 0)

\* faulty variant: a failure of the page transaction also undoes the
\* INSERT INTO Doujins
RegisterDoujin_Atomic(doujins, pages, folder) ==
    LET call == ImportPages(InsertDoujin(doujins, folder.meta), pages, folder)
    IN  IF folder.metadata = "missing"
        THEN Imported("OpenFailed", doujins, pages, 0, 0)
        ELSE IF folder.metadata = "invalid"
        THEN Imported("DecodeFailed", doujins, pages, 0, 0)
        ELSE IF call.err # "OK"
        THEN Imported(call.err, doujins, pages, call.expected, call.found)
        ELSE call

\* faulty variant: the Doujins row is inserted before metadata.json is decoded
RegisterDoujin_InsertFirst(doujins, pages, folder) ==
    IF folder.metadata = "missing"
    THEN Imported("OpenFailed", doujins, pages, 0, 0)
    ELSE IF folder.metadata = "invalid"
    THEN Imported("DecodeFailed", InsertDoujin(doujins, folder.meta), pages, 0, 0)
    ELSE ImportPages(InsertDoujin(doujins, folder.meta), pages, folder)

RegisterDoujin(doujins, pages, folder) ==
    IF folder.metadata = "missing"
    THEN Imported("OpenFailed", doujins, pages, 0, 0)
    ELSE IF folder.metadata = "invalid"
    THEN Imported("DecodeFailed", doujins, pages, 0, 0)
    ELSE ImportPages(InsertDoujin(doujins, folder.meta), pages, folder)

\* ------------------------------------------------------------- the search
\* the statement buildSearchQuery writes, clause by clause, and the values it
\* binds to the statement's placeholders
buildSearchQuery(query, tags, antiTags, pageSize, pageNumber, count) ==
    LET sqlLikeQuery == <<"%">> \o escapeSqlLike(query) \o <<"%">>
    IN  [text |-> << IF count THEN "SELECT COUNT(*)" ELSE "SELECT id, title, ..." >>
                  \o << "FROM Doujins WHERE (title LIKE ? ESCAPE '\\' OR subtitle LIKE ? ESCAPE '\\')" >>
                  \o [k \in 1..Len(tags) |-> "AND EXISTS (... WHERE jt.value = ?)"]
                  \o [k \in 1..Len(antiTags) |-> "AND NOT EXISTS (... WHERE jt.value = ?)"]
                  \o (IF count THEN <<>> ELSE << "ORDER BY upload_date DESC LIMIT ? OFFSET ?" >>),
         parameters |-> << sqlLikeQuery, sqlLikeQuery >> \o tags \o antiTags
                        \o (IF count THEN <<>>
                            ELSE << pageSize, pageSize * (pageNumber - 1) >>)]

\* the WHERE clause buildSearchQuery writes, for the count and for the fetch
Matches(d, query, tags, antiTags) ==
    LET sqlLikeQuery == <<"%">> \o escapeSqlLike(query) \o <<"%">>
    IN  /\ Like(sqlLikeQuery, d.title) \/ Like(sqlLikeQuery, d.subtitle)
        /\ \A k \in 1..Len(tags) : tags[k] \in json_each(d.tags)
        /\ \A k \in 1..Len(antiTags) : antiTags[k] \notin json_each(d.tags)

\* SELECT COUNT(*) ...
CountQuery(doujins, query, tags, antiTags) ==
    Cardinality({ i \in 1..Len(doujins) : Matches(doujins[i], query, tags, antiTags) })

\* the orders ORDER BY upload_date DESC may return the rows S in: rows with
\* equal upload_date come in an order the statement does not fix
RECURSIVE OrderBy(_, _)
OrderBy(doujins, S) ==
    IF S = {} THEN { <<>> }
    ELSE UNION { { <<i>> \o rest : rest \in OrderBy(doujins, S \ {i}) } :
                 i \in { i \in S : \A j \in S :
                            ~TextLess(doujins[i].upload_date, doujins[j].upload_date) } }

\* the orders the fetch's ORDER BY may return the matching rows in
SearchOrders(doujins, query, tags, antiTags) ==
    OrderBy(doujins, { i \in 1..Len(doujins) : Matches(doujins[i], query, tags, antiTags) })

\* LIMIT pageSize OFFSET pageSize*(pageNumber-1)
LimitOffset(sorted, pageSize, pageNumber) ==
    SubSeq(sorted, pageSize * (pageNumber - 1) + 1,
           IF pageSize * pageNumber < Len(sorted) THEN pageSize * pageNumber ELSE Len(sorted))

\* faulty variant: the quotient is rounded down
Ceil_Floor(resultsCount, pageSize) == resultsCount \div pageSize

\* int(math.Ceil(float64(resultsCount) / float64(pageSize)))
Ceil(resultsCount, pageSize) ==
    IF resultsCount % pageSize = 0 THEN resultsCount \div pageSize
    ELSE resultsCount \div pageSize + 1

\* faulty variant: the page with the largest id is taken, whatever its number
FirstPageId_Last(pages, doujinId) ==
    LET hits == { k \in 1..Len(pages) : pages[k].doujin_id = doujinId }
    IN  IF hits = {} THEN 0 ELSE pages[CHOOSE k \in hits : \A j \in hits : k >= j].id

\* SELECT id FROM DoujinPages WHERE doujin_id = ? AND page_number = 1, read by
\* QueryRow into capePageId, which stays 0 on sql.ErrNoRows
FirstPageId(pages, doujinId) ==
    LET hits == { k \in 1..Len(pages) :
                    pages[k].doujin_id = doujinId /\ pages[k].page_number = 1 }
    IN  IF hits = {} THEN 0 ELSE pages[CHOOSE k \in hits : \A j \in hits : k <= j].id

\* one entry of a search result
SearchEntry(d, pages) ==
    [id |-> d.id, title |-> d.title, subtitle |-> d.subtitle,
     upload_date |-> d.upload_date, tags |-> jsonUnmarshal(d.tags),
     pages |-> << <<1, FirstPageId(pages, d.id)>> >>]

\* SearchResult{}
NoSearchResult == [entries |-> <<>>, total_pages |-> 0]

\* the checks of pageSize and pageNumber that precede the queries
\* faulty variant: the page number is checked first
PageCheck_NumberFirst(pageSize, pageNumber) ==
    IF pageNumber < 1 THEN "InvalidPageNumber"
    ELSE IF pageSize < 1 \/ pageSize > 100 THEN "InvalidPageSize"
    ELSE "OK"

PageCheck(pageSize, pageNumber) ==
    IF pageSize < 1 \/ pageSize > 100 THEN "InvalidPageSize"
    ELSE IF pageNumber < 1 THEN "InvalidPageNumber"
    ELSE "OK"

\* the checks of the count that precede the fetch
\* faulty variant: an empty count is not told apart
CountCheck_NoEmpty(resultsCount, pageSize, pageNumber) ==
    IF pageNumber > Ceil(resultsCount, pageSize) THEN "InvalidPageNumber" ELSE "OK"

CountCheck(resultsCount, pageSize, pageNumber) ==
    IF resultsCount < 1 THEN "Empty"
    ELSE IF pageNumber > Ceil(resultsCount, pageSize) THEN "InvalidPageNumber"
    ELSE "OK"

\* what SearchDoujins returns without a result
SearchError(err, queried) == [err |-> err, result |-> NoSearchResult, queried |-> queried]

\* faulty variant: the page size and number are checked before the credentials
SearchDoujins_CheckFirst(users, doujins, pages, username, token, query, tags, antiTags, pageSize, pageNumber, sorted) ==
    LET resultsCount == CountQuery(doujins, query, tags, antiTags)
        page == LimitOffset(sorted, pageSize, pageNumber)
    IN  IF PageCheck(pageSize, pageNumber) # "OK"
        THEN SearchError(PageCheck(pageSize, pageNumber), {})
        ELSE IF authenticateUser(users, username, token).err # "OK"
        THEN SearchError(authenticateUser(users, username, token).err, {"Users"})
        ELSE IF CountCheck(resultsCount, pageSize, pageNumber) = "Empty"
        THEN SearchError("OK", {"Users", "Doujins"})
        ELSE IF CountCheck(resultsCount, pageSize, pageNumber) # "OK"
        THEN SearchError(CountCheck(resultsCount, pageSize, pageNumber), {"Users", "Doujins"})
        ELSE [err |-> "OK",
              result |-> [entries |-> [k \in 1..Len(page) |->
                                          SearchEntry(doujins[page[k]], pages)],
                          total_pages |-> Ceil(resultsCount, pageSize)],
              queried |-> {"Users", "Doujins", "DoujinPages"}]

\* SearchDoujins; `sorted` is the order the fetch's ORDER BY returns the
\* matching rows in; `queried` are the tables the call has read
SearchDoujins(users, doujins, pages, username, token, query, tags, antiTags, pageSize, pageNumber, sorted) ==
    LET resultsCount == CountQuery(doujins, query, tags, antiTags)
        page == LimitOffset(sorted, pageSize, pageNumber)
    IN  IF authenticateUser(users, username, token).err # "OK"
        THEN SearchError(authenticateUser(users, username, token).err, {"Users"})
        ELSE IF PageCheck(pageSize, pageNumber) # "OK"
        THEN SearchError(PageCheck(pageSize, pageNumber), {"Users"})
        ELSE IF CountCheck(resultsCount, pageSize, pageNumber) = "Empty"
        THEN SearchError("OK", {"Users", "Doujins"})
        ELSE IF CountCheck(resultsCount, pageSize, pageNumber) # "OK"
        THEN SearchError(CountCheck(resultsCount, pageSize, pageNumber), {"Users", "Doujins"})
        ELSE [err |-> "OK",
              result |-> [entries |-> [k \in 1..Len(page) |->
                                          SearchEntry(doujins[page[k]], pages)],
                          total_pages |-> Ceil(resultsCount, pageSize)],
              queried |-> {"Users", "Doujins", "DoujinPages"}]

\* ------------------------------------------------ the other authenticated calls
\* faulty variant: the errors of authenticateUser are passed on
IsAuthDataValid_Raises(users, username, token) ==
    [err |-> authenticateUser(users, username, token).err,
     valid |-> authenticateUser(users, username, token).err = "OK"]

IsAuthDataValid(users, username, token) ==
    IF authenticateUser(users, username, token).err \in {"InexistentUser", "InvalidToken"}
    THEN [err |-> "OK", valid |-> FALSE]
    ELSE IF authenticateUser(users, username, token).err # "OK"
    THEN [err |-> authenticateUser(users, username, token).err, valid |-> FALSE]
    ELSE [err |-> "OK", valid |-> TRUE]

\* SELECT username FROM Users WHERE id = ?
SelectUsername(users, userId) ==
    users[CHOOSE i \in 1..Len(users) : users[i].id = userId].username

\* faulty variant: the username of the request is returned
GetUsername_Echo(users, username, token) ==
    LET auth == authenticateUser(users, username, token)
    IN  IF auth.err # "OK" THEN [err |-> auth.err, username |-> <<>>]
        ELSE [err |-> "OK", username |-> username]

GetUsername(users, username, token) ==
    LET auth == authenticateUser(users, username, token)
    IN  IF auth.err # "OK" THEN [err |-> auth.err, username |-> <<>>]
        ELSE [err |-> "OK", username |-> SelectUsername(users, auth.id)]

\* the result of a metadata read that found nothing
NoDoujin == [id |-> 0, title |-> <<>>, subtitle |-> <<>>]

GetDoujinMetadata(users, doujins, pages, username, token, id) ==
    LET auth == authenticateUser(users, username, token)
        isDoujin(r) == r.id = id
        isPageOf(r) == r.doujin_id = id
        found == SelectSeq(doujins, isDoujin)
        itsPages == SelectSeq(pages, isPageOf)
    IN  IF auth.err # "OK" THEN [err |-> auth.err, doujin |-> NoDoujin]
        ELSE IF found = <<>> THEN [err |-> "InvalidId", doujin |-> NoDoujin]
        ELSE [err |-> "OK",
              doujin |-> [id |-> found[1].id, title |-> found[1].title,
                          subtitle |-> found[1].subtitle,
                          upload_date |-> found[1].upload_date,
                          tags |-> jsonUnmarshal(found[1].tags),
                          pages |-> [k \in 1..Len(itsPages) |->
                                        <<itsPages[k].page_number, itsPages[k].id>>]]]

\* the byte order of the tags the folders use (ORDER BY tag)
TagOrder == <<"romance", "yaoi", "yuri">>

GetAllTags(users, doujins, username, token) ==
    LET auth == authenticateUser(users, username, token)
        distinct == UNION { json_each(doujins[i].tags) : i \in 1..Len(doujins) }
        isTag(t) == t \in distinct
    IN  IF auth.err # "OK" THEN [err |-> auth.err, tags |-> <<>>]
        \* Scan into a string fails on the NULL of a "null" tags column
        ELSE IF \E i \in 1..Len(doujins) : json_each_null(doujins[i].tags)
        THEN [err |-> "StorageError", tags |-> <<>>]
        ELSE [err |-> "OK", tags |-> SelectSeq(TagOrder, isTag)]

GetPageFilePath(users, pages, username, token, pageId) ==
    LET auth == authenticateUser(users, username, token)
        isPage(r) == r.id = pageId
        found == SelectSeq(pages, isPage)
    IN  IF auth.err # "OK" THEN [err |-> auth.err, path |-> <<>>]
        ELSE IF found = <<>> THEN [err |-> "InvalidId", path |-> <<>>]
        ELSE [err |-> "OK", path |-> found[1].page_path]

\* ------------------------------------------------------------- tag sets
\* the TagSets table: its rows, and the largest id AUTOINCREMENT has given
NoTagSets == [rows |-> <<>>, seq |-> 0]

CreateTagSet(users, tagSets, username, token, tags, antiTags) ==
    LET auth == authenticateUser(users, username, token)
    IN  IF auth.err # "OK" THEN [err |-> auth.err, id |-> 0, TagSets |-> tagSets]
        ELSE [err |-> "OK", id |-> tagSets.seq + 1,
              TagSets |-> [rows |-> Append(tagSets.rows,
                                       [id |-> tagSets.seq + 1, user_id |-> auth.id,
                                        tags |-> jsonEncode(tags),
                                        anti_tags |-> jsonEncode(antiTags)]),
                           seq |-> tagSets.seq + 1]]

\* SELECT user_id FROM TagSets WHERE id = ?: 0 stands for sql.ErrNoRows
TagSetOwner(tagSets, tagSetId) ==
    LET hits == { k \in 1..Len(tagSets.rows) : tagSets.rows[k].id = tagSetId }
    IN  IF hits = {} THEN 0 ELSE tagSets.rows[CHOOSE k \in hits : TRUE].user_id

\* faulty variant: the owner of the tag set is not compared with the caller
DeleteTagSet_AnyOwner(users, tagSets, username, token, tagSetId) ==
    LET auth == authenticateUser(users, username, token)
        others(r) == r.id # tagSetId
    IN  IF auth.err # "OK" THEN [err |-> auth.err, TagSets |-> tagSets]
        ELSE IF TagSetOwner(tagSets, tagSetId) = 0
        THEN [err |-> "InvalidId", TagSets |-> tagSets]
        ELSE [err |-> "OK",
              TagSets |-> [tagSets EXCEPT !.rows = SelectSeq(tagSets.rows, others)]]

DeleteTagSet(users, tagSets, username, token, tagSetId) ==
    LET auth == authenticateUser(users, username, token)
        others(r) == r.id # tagSetId
    IN  IF auth.err # "OK" THEN [err |-> auth.err, TagSets |-> tagSets]
        ELSE IF TagSetOwner(tagSets, tagSetId) = 0
        THEN [err |-> "InvalidId", TagSets |-> tagSets]
        ELSE IF TagSetOwner(tagSets, tagSetId) # auth.id
        THEN [err |-> "Unauthorized", TagSets |-> tagSets]
        ELSE [err |-> "OK",
              TagSets |-> [tagSets EXCEPT !.rows = SelectSeq(tagSets.rows, others)]]

ChangeTagSet(users, tagSets, username, token, tagSetId, tags, antiTags) ==
    LET auth == authenticateUser(users, username, token)
    IN  IF auth.err # "OK" THEN [err |-> auth.err, TagSets |-> tagSets]
        ELSE IF TagSetOwner(tagSets, tagSetId) = 0
        THEN [err |-> "InvalidId", TagSets |-> tagSets]
        ELSE IF TagSetOwner(tagSets, tagSetId) # auth.id
        THEN [err |-> "Unauthorized", TagSets |-> tagSets]
        ELSE [err |-> "OK",
              TagSets |-> [tagSets EXCEPT !.rows =
                              [k \in 1..Len(tagSets.rows) |->
                                  IF tagSets.rows[k].id = tagSetId
                                  THEN [tagSets.rows[k] EXCEPT
                                            !.tags = jsonEncode(tags),
                                            !.anti_tags = jsonEncode(antiTags)]
                                  ELSE tagSets.rows[k]]]]

\* faulty variant: the rows of every user are returned
GetTagSets_All(users, tagSets, username, token) ==
    LET auth == authenticateUser(users, username, token)
        rows == tagSets.rows
    IN  IF auth.err # "OK" THEN [err |-> auth.err, tagSets |-> <<>>]
        ELSE [err |-> "OK",
              tagSets |-> [k \in 1..Len(rows) |->
                              [id |-> rows[k].id,
                               tags |-> jsonUnmarshal(rows[k].tags),
                               anti_tags |-> jsonUnmarshal(rows[k].anti_tags)]]]

GetTagSets(users, tagSets, username, token) ==
    LET auth == authenticateUser(users, username, token)
        owned(r) == r.user_id = auth.id
        rows == SelectSeq(tagSets.rows, owned)
    IN  IF auth.err # "OK" THEN [err |-> auth.err, tagSets |-> <<>>]
        ELSE [err |-> "OK",
              tagSets |-> [k \in 1..Len(rows) |->
                              [id |-> rows[k].id,
                               tags |-> jsonUnmarshal(rows[k].tags),
                               anti_tags |-> jsonUnmarshal(rows[k].anti_tags)]]]

\* --------------------------------------------- what the variables start as
NoData == [kind |-> "none"]

\* no SearchDoujins call in flight (SpecImport)
IdleSearch ==
    [pc |-> "idle", username |-> <<>>, token |-> NoToken,
     filter |-> << <<>>, <<>>, <<>> >>, pageSize |-> 0, pageNumber |-> 0,
     totalPages |-> 0, rows |-> <<>>, entries |-> <<>>, seen |-> {}]

\* no RegisterDoujin call in flight (SpecImport)
NoFolder ==
    [path |-> "", metadata |-> "missing",
     meta |-> [title |-> <<>>, subtitle |-> <<>>,
               upload_date |-> [instant |-> 0, offset |-> 0],
               tags |-> NilSlice, pages |-> 0],
     entries |-> <<>>]

IdleImport == [pc |-> "idle", folder |-> NoFolder]

\* ------------------------------------- calls that run one at a time
Ret(op, err, token) == [op |-> op, err |-> err, token |-> token]

DoRegisterUser(username, password) ==
    LET call == RegisterUser(Users, username, password)
    IN  /\ call.err = "OK" => Len(Users) < MaxUsers
        /\ Users' = call.users
        /\ ret' = Ret("register", call.err, NoToken)
        /\ UNCHANGED <<issued, returned, revoked, procs, started, libVars>>

DoLoginUser(username, password) ==
    LET call == LoginUser(Users, username, password,
                          FreshToken(username), FreshSalt(username))
    IN  /\ Users' = call.users
        /\ ret' = Ret("login", call.err, call.token)
        /\ issued' = IF call.err = "OK"
                     THEN [issued EXCEPT ![Fold(username)] = NextSerial(username)]
                     ELSE issued
        /\ returned' = IF call.err = "OK" THEN returned \cup {call.token} ELSE returned
        /\ UNCHANGED <<revoked, procs, started, libVars>>

DoLogoutUser(username, token) ==
    LET call == LogoutUser(Users, username, token)
    IN  /\ Users' = call.users
        /\ ret' = Ret("logout", call.err, NoToken)
        /\ revoked' = IF call.err = "OK" THEN revoked \cup {token} ELSE revoked
        /\ UNCHANGED <<issued, returned, procs, started, libVars>>

\* ----------------------------------------------------------- specification
RECURSIVE SumOver(_, _)
SumOver(f, S) ==
    IF S = {} THEN 0
    ELSE LET n == CHOOSE x \in S : TRUE IN f[n] + SumOver(f, S \ {n})

TotalIssued == SumOver(issued, DOMAIN issued)

Procs == 1..NumProcs

IdleProc == [pc |-> "idle", username |-> <<>>, password |-> <<>>,
             token |-> NoToken, tokens |-> EmptyString,
             userId |-> 0, tagSetId |-> 0]

Init ==
    /\ Users = <<>>
    /\ ret = Ret("none", "OK", NoToken)
    /\ issued = [n \in FoldedNames |-> 0]
    /\ returned = {}
    /\ revoked = {}
    /\ procs = [pr \in Procs |-> IdleProc]
    /\ started = 0
    /\ Doujins = <<>>
    /\ DoujinPages = <<>>
    /\ TagSets = NoTagSets
    /\ data = NoData
    /\ search = IdleSearch
    /\ importing = IdleImport

Next ==
    \/ \E u \in Usernames, p \in Passwords : DoRegisterUser(u, p)
    \/ \E u \in Usernames, p \in Passwords :
          /\ TotalIssued < MaxLogins
          /\ DoLoginUser(u, p)
    \/ \E u \in Usernames, t \in TokenInputs :
          /\ Cardinality(revoked) < MaxLogouts
          /\ DoLogoutUser(u, t)

Spec == Init /\ [][Next]_vars

\* the same calls, followed past the cap of MaxTokensPerUser
NextCap ==
    \/ \E u \in Usernames, p \in CapPasswords : DoRegisterUser(u, p)
    \/ \E u \in Usernames, p \in Passwords :
          /\ TotalIssued < MaxTokensPerUser + CapSlack
          /\ DoLoginUser(u, p)
    \/ \E u \in Usernames, t \in CapTokenInputs :
          /\ Cardinality(revoked) < CapLogouts
          /\ DoLogoutUser(u, t)

SpecCap == Init /\ [][NextCap]_vars

\* ------------------------------------------ calls that run concurrently
\* every request runs in a goroutine of its own; each SQL statement is atomic,
\* a method's statements are not (no transaction, no lock)
ConcUsernames == { <<"a">>, <<"A">> }
ConcPasswords == { <<"p">> }
ConcTokenInputs == { Token(<<"a">>, k) : k \in 1..MaxConcOps }

Finish(pr) == [procs EXCEPT ![pr] = IdleProc]

\* RegisterUser up to its SELECT
RegisterSelect(pr, username, password) ==
    LET err == RegisterUser(Users, username, password).err
    IN  /\ procs[pr].pc = "idle"
        /\ started < MaxConcOps
        /\ started' = started + 1
        /\ UNCHANGED <<Users, issued, returned, revoked, libVars>>
        /\ IF err # "OK"
           THEN /\ ret' = Ret("register", err, NoToken)
                /\ UNCHANGED procs
           ELSE /\ procs' = [procs EXCEPT ![pr] = [IdleProc EXCEPT
                                  !.pc = "register_insert",
                                  !.username = username, !.password = password]]
                /\ UNCHANGED ret

\* RegisterUser's INSERT
RegisterInsert(pr) ==
    /\ procs[pr].pc = "register_insert"
    /\ Len(Users) < MaxUsers
    /\ Users' = InsertUser(Users, procs[pr].username, procs[pr].password)
    /\ ret' = Ret("register", "OK", NoToken)
    /\ procs' = Finish(pr)
    /\ UNCHANGED <<issued, returned, revoked, started, libVars>>

\* LoginUser up to AppendNew on the value it read
LoginSelect(pr, username, password) ==
    LET call == LoginUser(Users, username, password,
                          FreshToken(username), FreshSalt(username))
        r == SelectUser(Users, username)
    IN  /\ procs[pr].pc = "idle"
        /\ started < MaxConcOps
        /\ started' = started + 1
        /\ UNCHANGED <<Users, returned, revoked, libVars>>
        /\ IF call.err # "OK"
           THEN /\ ret' = Ret("login", call.err, NoToken)
                /\ UNCHANGED <<procs, issued>>
           ELSE /\ issued' = [issued EXCEPT ![Fold(username)] = NextSerial(username)]
                /\ procs' = [procs EXCEPT ![pr] = [IdleProc EXCEPT
                                  !.pc = "login_update",
                                  !.username = username,
                                  !.token = FreshToken(username),
                                  !.tokens = AppendNew(Users[r].session_tokens,
                                                 FreshToken(username), FreshSalt(username))]]
                /\ UNCHANGED ret

\* LoginUser's UPDATE
LoginUpdate(pr) ==
    /\ procs[pr].pc = "login_update"
    /\ Users' = UpdateTokens(Users, procs[pr].username, procs[pr].tokens)
    /\ ret' = Ret("login", "OK", procs[pr].token)
    /\ returned' = returned \cup {procs[pr].token}
    /\ procs' = Finish(pr)
    /\ UNCHANGED <<issued, revoked, started, libVars>>

\* LogoutUser up to RemoveToken on the value it read
LogoutSelect(pr, username, token) ==
    LET call == LogoutUser(Users, username, token)
        r == SelectUser(Users, username)
    IN  /\ procs[pr].pc = "idle"
        /\ started < MaxConcOps
        /\ started' = started + 1
        /\ UNCHANGED <<Users, issued, returned, revoked, libVars>>
        /\ IF call.err # "OK"
           THEN /\ ret' = Ret("logout", call.err, NoToken)
                /\ UNCHANGED procs
           ELSE /\ procs' = [procs EXCEPT ![pr] = [IdleProc EXCEPT
                                  !.pc = "logout_update",
                                  !.username = username,
                                  !.token = token,
                                  !.tokens = RemoveToken(Users[r].session_tokens, token).tokens]]
                /\ UNCHANGED ret

\* LogoutUser's UPDATE
LogoutUpdate(pr) ==
    /\ procs[pr].pc = "logout_update"
    /\ Users' = UpdateTokens(Users, procs[pr].username, procs[pr].tokens)
    /\ ret' = Ret("logout", "OK", NoToken)
    /\ revoked' = revoked \cup {procs[pr].token}
    /\ procs' = Finish(pr)
    /\ UNCHANGED <<issued, returned, started, libVars>>

NextConc ==
    \E pr \in Procs :
        \/ \E u \in ConcUsernames, p \in ConcPasswords : RegisterSelect(pr, u, p)
        \/ RegisterInsert(pr)
        \/ \E u \in ConcUsernames, p \in ConcPasswords : LoginSelect(pr, u, p)
        \/ LoginUpdate(pr)
        \/ \E u \in ConcUsernames, t \in ConcTokenInputs : LogoutSelect(pr, u, t)
        \/ LogoutUpdate(pr)

SpecConc == Init /\ [][NextConc]_vars

\* ------------------------------------ tag-set calls that run concurrently
\* the callers: two users, each with the first token a login gives them
TagSetCallers == { <<<<"a">>, Token(<<"a">>, 1)>>, <<<<"b">>, Token(<<"b">>, 1)>> }
TagSetIds == 1..MaxTagSets

\* the end of a tag-set call
TagSetReturn(pr, op, err) ==
    /\ ret' = Ret(op, err, NoToken)
    /\ procs' = Finish(pr)

\* authenticateUser, the first statement of CreateTagSet, DeleteTagSet and
\* ChangeTagSet
TagSetAuth(pr, op, c, tagSetId) ==
    LET auth == authenticateUser(Users, c[1], c[2])
    IN  /\ procs[pr].pc = "idle"
        /\ UNCHANGED <<Users, issued, returned, revoked, started, libVars>>
        /\ IF auth.err # "OK"
           THEN TagSetReturn(pr, op, auth.err)
           ELSE /\ procs' = [procs EXCEPT ![pr] = [IdleProc EXCEPT
                                 !.pc = IF op = "createTagSet" THEN "create_insert"
                                        ELSE IF op = "deleteTagSet" THEN "delete_select"
                                        ELSE "change_select",
                                 !.username = c[1], !.token = c[2],
                                 !.userId = auth.id, !.tagSetId = tagSetId]]
                /\ UNCHANGED ret

\* CreateTagSet's INSERT INTO TagSets
CreateInsert(pr, tags, antiTags) ==
    /\ procs[pr].pc = "create_insert"
    /\ TagSets.seq < MaxTagSets
    /\ TagSets' = [rows |-> Append(TagSets.rows,
                                [id |-> TagSets.seq + 1, user_id |-> procs[pr].userId,
                                 tags |-> jsonEncode(tags),
                                 anti_tags |-> jsonEncode(antiTags)]),
                   seq |-> TagSets.seq + 1]
    /\ TagSetReturn(pr, "createTagSet", "OK")
    /\ UNCHANGED <<Users, issued, returned, revoked, started,
                   Doujins, DoujinPages, data, search, importing>>

\* SELECT user_id FROM TagSets WHERE id = ? and the comparison with the caller
OwnerSelect(pr, op, from, to) ==
    LET tagSetOwnerId == TagSetOwner(TagSets, procs[pr].tagSetId)
    IN  /\ procs[pr].pc = from
        /\ UNCHANGED <<Users, issued, returned, revoked, started, libVars>>
        /\ IF tagSetOwnerId = 0 THEN TagSetReturn(pr, op, "InvalidId")
           ELSE IF tagSetOwnerId # procs[pr].userId THEN TagSetReturn(pr, op, "Unauthorized")
           ELSE /\ procs' = [procs EXCEPT ![pr].pc = to]
                /\ UNCHANGED ret

\* DELETE FROM TagSets WHERE id = ?
DeleteExec(pr) ==
    LET others(r) == r.id # procs[pr].tagSetId
    IN  /\ procs[pr].pc = "delete_exec"
        /\ TagSets' = [TagSets EXCEPT !.rows = SelectSeq(TagSets.rows, others)]
        /\ TagSetReturn(pr, "deleteTagSet", "OK")
        /\ UNCHANGED <<Users, issued, returned, revoked, started,
                       Doujins, DoujinPages, data, search, importing>>

\* UPDATE TagSets SET tags = ?, anti_tags = ? WHERE id = ?
ChangeExec(pr, tags, antiTags) ==
    /\ procs[pr].pc = "change_exec"
    /\ TagSets' = [TagSets EXCEPT !.rows =
                      [k \in 1..Len(TagSets.rows) |->
                          IF TagSets.rows[k].id = procs[pr].tagSetId
                          THEN [TagSets.rows[k] EXCEPT !.tags = jsonEncode(tags),
                                                       !.anti_tags = jsonEncode(antiTags)]
                          ELSE TagSets.rows[k]]]
    /\ TagSetReturn(pr, "changeTagSet", "OK")
    /\ UNCHANGED <<Users, issued, returned, revoked, started,
                   Doujins, DoujinPages, data, search, importing>>

NextTagSets ==
    \/ \E u \in { <<"a">>, <<"b">> } : DoRegisterUser(u, <<"p">>)
    \/ \E u \in { <<"a">>, <<"b">> } :
          /\ issued[Fold(u)] < MaxTagSetLogins
          /\ DoLoginUser(u, <<"p">>)
    \/ \E pr \in Procs :
          \/ \E c \in TagSetCallers : TagSetAuth(pr, "createTagSet", c, 0)
          \/ \E c \in TagSetCallers, id \in TagSetIds : TagSetAuth(pr, "deleteTagSet", c, id)
          \/ \E c \in TagSetCallers, id \in TagSetIds : TagSetAuth(pr, "changeTagSet", c, id)
          \/ CreateInsert(pr, StringSlice(<<"yuri">>), NilSlice)
          \/ OwnerSelect(pr, "deleteTagSet", "delete_select", "delete_exec")
          \/ OwnerSelect(pr, "changeTagSet", "change_select", "change_exec")
          \/ DeleteExec(pr)
          \/ ChangeExec(pr, StringSlice(<<>>), StringSlice(<<"yaoi">>))

SpecTagSets == Init /\ [][NextTagSets]_vars

\* --------------------------------------------------- the library's callers
\* the folders the administrator imports: metadata.json and the page files,
\* in the order os.ReadDir lists them (sorted by name)
File(name) == [name |-> name, isDir |-> FALSE]
Dir(name) == [name |-> name, isDir |-> TRUE]
MetadataJson == File(<<"m","e","t","a","d","a","t","a",".","j","s","o","n">>)

\* a complete one-page folder, uploaded at instant 10 (written in UTC)
FolderA ==
    [path |-> "A", metadata |-> "ok",
     meta |-> [title |-> <<"a","B">>, subtitle |-> <<>>,
               upload_date |-> [instant |-> 10, offset |-> 0],
               tags |-> StringSlice(<<"yuri","romance">>), pages |-> 1],
     entries |-> << File(<<"1",".","p","n","g">>), MetadataJson >>]

\* a complete two-page folder, uploaded at instant 8 (written with +09:00)
FolderB ==
    [path |-> "B", metadata |-> "ok",
     meta |-> [title |-> <<"b","%">>, subtitle |-> <<"A","_">>,
               upload_date |-> [instant |-> 8, offset |-> 9],
               tags |-> StringSlice(<<"yaoi">>), pages |-> 2],
     entries |-> << File(<<"1",".","p","n","g">>), File(<<"2",".","j","p","g">>),
                    MetadataJson >>]

Folders == { FolderA, FolderB }

\* what the callers of the library present
LibUsernames == { <<"a">> }
LibTokenInputs == { Token(<<"a">>, 1), NoToken }
Queries == { <<>>, <<"%">> }
TagLists == { <<>>, <<"yuri">> }
AntiTagLists == { <<>> }
PageSizes == { 0, 1 }
PageNumbers == { 1, 2 }

\* the rows and tokens the callers have added to the store
LibWrites == Len(Doujins) + TotalIssued + TagSets.seq

Data(kind, value) == [kind |-> kind, value |-> value]

DoRegisterDoujin(folder) ==
    LET call == RegisterDoujin(Doujins, DoujinPages, folder)
    IN  /\ LibWrites < MaxLibWrites
        /\ Doujins' = call.Doujins
        /\ DoujinPages' = call.DoujinPages
        /\ ret' = Ret("import", call.err, NoToken)
        /\ data' = NoData
        /\ UNCHANGED <<Users, issued, returned, revoked, procs, started,
                       TagSets, search, importing>>

\* a call that only reads: what it returned
Returns(op, err, kind, value) ==
    /\ ret' = Ret(op, err, NoToken)
    /\ data' = Data(kind, value)
    /\ UNCHANGED <<Users, issued, returned, revoked, procs, started,
                   Doujins, DoujinPages, TagSets, search, importing>>

DoSearchDoujins(username, token, query, tags, antiTags, pageSize, pageNumber) ==
    \E sorted \in SearchOrders(Doujins, query, tags, antiTags) :
        LET call == SearchDoujins(Users, Doujins, DoujinPages, username, token,
                                  query, tags, antiTags, pageSize, pageNumber, sorted)
        IN  Returns("search", call.err, "search", call.result)

DoIsAuthDataValid(username, token) ==
    LET call == IsAuthDataValid(Users, username, token)
    IN  Returns("isAuthDataValid", call.err, "valid", call.valid)

DoGetUsername(username, token) ==
    LET call == GetUsername(Users, username, token)
    IN  Returns("getUsername", call.err, "username", call.username)

DoGetDoujinMetadata(username, token, id) ==
    LET call == GetDoujinMetadata(Users, Doujins, DoujinPages, username, token, id)
    IN  Returns("getDoujinMetadata", call.err, "doujin", call.doujin)

DoGetAllTags(username, token) ==
    LET call == GetAllTags(Users, Doujins, username, token)
    IN  Returns("getAllTags", call.err, "tags", call.tags)

DoGetPageFilePath(username, token, pageId) ==
    LET call == GetPageFilePath(Users, DoujinPages, username, token, pageId)
    IN  Returns("getPageFilePath", call.err, "path", call.path)

DoGetTagSets(username, token) ==
    LET call == GetTagSets(Users, TagSets, username, token)
    IN  Returns("getTagSets", call.err, "tagSets", call.tagSets)

\* a call that writes the TagSets table: what it returned and left
Writes(op, err, tagSets) ==
    /\ ret' = Ret(op, err, NoToken)
    /\ data' = NoData
    /\ TagSets' = tagSets
    /\ UNCHANGED <<Users, issued, returned, revoked, procs, started,
                   Doujins, DoujinPages, search, importing>>

DoCreateTagSet(username, token, tags, antiTags) ==
    LET call == CreateTagSet(Users, TagSets, username, token, tags, antiTags)
    IN  /\ call.err = "OK" => LibWrites < MaxLibWrites
        /\ Writes("createTagSet", call.err, call.TagSets)

DoDeleteTagSet(username, token, tagSetId) ==
    LET call == DeleteTagSet(Users, TagSets, username, token, tagSetId)
    IN  Writes("deleteTagSet", call.err, call.TagSets)

DoChangeTagSet(username, token, tagSetId, tags, antiTags) ==
    LET call == ChangeTagSet(Users, TagSets, username, token, tagSetId, tags, antiTags)
    IN  Writes("changeTagSet", call.err, call.TagSets)

NextLib ==
    \/ DoRegisterUser(<<"A">>, <<"p">>)
    \/ \E u \in LibUsernames :
          /\ LibWrites < MaxLibWrites
          /\ DoLoginUser(u, <<"p">>)
    \/ \E f \in Folders : DoRegisterDoujin(f)
    \/ \E u \in LibUsernames, t \in LibTokenInputs, q \in Queries, tags \in TagLists,
          antiTags \in AntiTagLists, pageSize \in PageSizes, pageNumber \in PageNumbers :
          DoSearchDoujins(u, t, q, tags, antiTags, pageSize, pageNumber)
    \/ \E u \in LibUsernames, t \in LibTokenInputs : DoIsAuthDataValid(u, t)
    \/ \E u \in LibUsernames, t \in LibTokenInputs : DoGetUsername(u, t)
    \/ \E u \in LibUsernames, t \in LibTokenInputs, id \in 1..MaxLibWrites :
          DoGetDoujinMetadata(u, t, id)
    \/ \E u \in LibUsernames, t \in LibTokenInputs : DoGetAllTags(u, t)
    \/ \E u \in LibUsernames, t \in LibTokenInputs, id \in 1..MaxLibWrites :
          DoGetPageFilePath(u, t, id)
    \/ \E u \in LibUsernames, t \in LibTokenInputs : DoGetTagSets(u, t)
    \/ \E u \in LibUsernames, t \in LibTokenInputs :
          DoCreateTagSet(u, t, StringSlice(<<"yuri">>), NilSlice)
    \/ \E u \in LibUsernames, t \in LibTokenInputs, id \in 1..MaxLibWrites :
          DoDeleteTagSet(u, t, id)
    \/ \E u \in LibUsernames, t \in LibTokenInputs, id \in 1..MaxLibWrites :
          DoChangeTagSet(u, t, id, StringSlice(<<>>), StringSlice(<<"yaoi">>))

SpecLib == Init /\ [][NextLib]_vars

\* --------------------------------------- tag-set calls, one at a time
\* the lists a tag set is created with
TagSetLists == { NilSlice, StringSlice(<<"yuri">>) }

DoCreateTagSetOf(c, tags, antiTags) ==
    LET call == CreateTagSet(Users, TagSets, c[1], c[2], tags, antiTags)
    IN  /\ call.err = "OK" => TagSets.seq < MaxTagSets
        /\ Writes("createTagSet", call.err, call.TagSets)

NextTagLib ==
    \/ \E u \in { <<"a">>, <<"b">> } : DoRegisterUser(u, <<"p">>)
    \/ \E u \in { <<"a">>, <<"b">> } :
          /\ issued[Fold(u)] < MaxTagSetLogins
          /\ DoLoginUser(u, <<"p">>)
    \/ \E c \in TagSetCallers, tags \in TagSetLists : DoCreateTagSetOf(c, tags, NilSlice)
    \/ \E c \in TagSetCallers, id \in TagSetIds : DoDeleteTagSet(c[1], c[2], id)
    \/ \E c \in TagSetCallers, id \in TagSetIds :
          DoChangeTagSet(c[1], c[2], id, StringSlice(<<>>), StringSlice(<<"yaoi">>))
    \/ \E c \in TagSetCallers : DoGetTagSets(c[1], c[2])

SpecTagLib == Init /\ [][NextTagLib]_vars

\* ------------------------------------------------ the folders imported
Png(n) == File(<<n, ".", "p", "n", "g">>)
Jpg(n) == File(<<n, ".", "j", "p", "g">>)

\* a folder with a decodable metadata.json declaring `pages` pages
Folder(path, tag, pages, entries) ==
    [path |-> path, metadata |-> "ok",
     meta |-> [title |-> <<path>>, subtitle |-> <<>>,
               upload_date |-> [instant |-> 5, offset |-> 0],
               tags |-> StringSlice(<<tag>>), pages |-> pages],
     entries |-> entries]

\* declares 3 pages and holds 1.png and 2.png
FolderMissing == Folder("M", "yuri", 3, << Png("1"), Png("2"), MetadataJson >>)

\* declares 1 page and holds 1.png and 2.png
FolderTooMany == Folder("T", "yaoi", 1, << Png("1"), Png("2"), MetadataJson >>)

\* declares 3 pages and holds 1.png, 2.png and 4.png
FolderGap == Folder("G", "romance", 3, << Png("1"), Png("2"), Png("4"), MetadataJson >>)

\* declares 2 pages and holds 01.jpg and 1.png
FolderDuplicate ==
    Folder("D", "yuri", 2, << File(<<"0", "1", ".", "j", "p", "g">>), Png("1"), MetadataJson >>)

\* declares 1 page and holds 0.png
FolderZero == Folder("Z", "yaoi", 1, << Png("0"), MetadataJson >>)

\* declares no page and holds none
FolderEmpty == Folder("E", "romance", 0, << MetadataJson >>)

\* declares 2 pages and holds 01.jpg and 2 among a directory and files that
\* name no page: -1.png, 1.tar.gz, cover.png, metadata.json, .png
FolderMixed ==
    Folder("X", "yaoi", 2,
           << File(<<"-", "1", ".", "p", "n", "g">>),
              File(<<".", "p", "n", "g">>),
              File(<<"0", "1", ".", "j", "p", "g">>),
              File(<<"1", ".", "t", "a", "r", ".", "g", "z">>),
              File(<<"2">>),
              Dir(<<"3">>),
              File(<<"c", "o", "v", "e", "r", ".", "p", "n", "g">>),
              MetadataJson >>)

\* declares 1 page and holds 1.png and 4294967296.png
FolderHuge ==
    Folder("H", "yuri", 1,
           << Png("1"),
              File(<<"4", "2", "9", "4", "9", "6", "7", "2", "9", "6", ".", "p", "n", "g">>),
              MetadataJson >>)

\* declares 2 pages and holds 03.png and 1.png
FolderUnordered ==
    Folder("U", "yuri", 2, << File(<<"0", "3", ".", "p", "n", "g">>), Png("1"), MetadataJson >>)

\* no metadata.json
FolderNoMetadata == [FolderA EXCEPT !.path = "N", !.metadata = "missing",
                                    !.entries = << Png("1") >>]

\* a metadata.json that is not JSON
FolderBadMetadata == [FolderA EXCEPT !.path = "J", !.metadata = "invalid"]

\* the folders the administrator imports
ImportFolders == { FolderA, FolderMissing, FolderGap, FolderMixed, FolderBadMetadata }

\* the folders an import is examined with
ProbeFolders ==
    { FolderA, FolderB, FolderMissing, FolderTooMany, FolderGap, FolderDuplicate,
      FolderZero, FolderEmpty, FolderMixed, FolderUnordered, FolderNoMetadata,
      FolderBadMetadata }

NextFolders ==
    \/ DoRegisterUser(<<"A">>, <<"p">>)
    \/ /\ LibWrites < MaxLibWrites
       /\ DoLoginUser(<<"a">>, <<"p">>)
    \/ \E f \in ImportFolders : DoRegisterDoujin(f)
    \/ \E t \in LibTokenInputs, pageNumber \in PageNumbers :
          DoSearchDoujins(<<"a">>, t, <<>>, <<>>, <<>>, 2, pageNumber)
    \/ \E t \in LibTokenInputs : DoGetAllTags(<<"a">>, t)

SpecFolders == Init /\ [][NextFolders]_vars

\* ----------------------------------------- a search while an import runs
\* the server's SearchDoujins and the administrator's RegisterDoujin run in
\* different processes on one database file; each SQL statement (and the page
\* transaction's commit) is atomic, a method's statements are not
Snapshot == [Doujins |-> Doujins, DoujinPages |-> DoujinPages]

\* the import's statements change the store a search in flight may read
Seen(store) ==
    IF search.pc \in {"fetch", "lookup"}
    THEN [search EXCEPT !.seen = search.seen \cup {store}]
    ELSE search

\* RegisterDoujin up to its INSERT INTO Doujins
ImportInsert(folder) ==
    /\ importing.pc = "idle"
    /\ folder.metadata = "ok"
    /\ LibWrites < MaxLibWrites
    /\ Doujins' = InsertDoujin(Doujins, folder.meta)
    /\ importing' = [pc |-> "pages", folder |-> folder]
    /\ search' = Seen([Doujins |-> Doujins', DoujinPages |-> DoujinPages])
    /\ UNCHANGED <<Users, ret, issued, returned, revoked, procs, started,
                   DoujinPages, TagSets, data>>

\* RegisterDoujin's page transaction, to its commit or rollback
ImportCommit ==
    LET call == ImportPages(Doujins, DoujinPages, importing.folder)
    IN  /\ importing.pc = "pages"
        /\ DoujinPages' = call.DoujinPages
        /\ importing' = IdleImport
        /\ ret' = Ret("import", call.err, NoToken)
        /\ search' = Seen([Doujins |-> Doujins, DoujinPages |-> DoujinPages'])
        /\ UNCHANGED <<Users, issued, returned, revoked, procs, started,
                       Doujins, TagSets, data>>

\* SearchDoujins up to its count query and the checks of the count
SearchCount(username, token, f, pageSize, pageNumber) ==
    LET resultsCount == CountQuery(Doujins, f[1], f[2], f[3])
        early ==
            IF authenticateUser(Users, username, token).err # "OK"
            THEN authenticateUser(Users, username, token).err
            ELSE IF PageCheck(pageSize, pageNumber) # "OK"
            THEN PageCheck(pageSize, pageNumber)
            ELSE CountCheck(resultsCount, pageSize, pageNumber)
    IN  /\ search.pc \in {"idle", "done"}
        /\ UNCHANGED <<Users, issued, returned, revoked, procs, started,
                       Doujins, DoujinPages, TagSets, importing>>
        /\ IF early # "OK"
           THEN /\ ret' = Ret("search", IF early = "Empty" THEN "OK" ELSE early, NoToken)
                /\ data' = Data("search", NoSearchResult)
                /\ search' = IdleSearch
           ELSE /\ search' = [IdleSearch EXCEPT
                                 !.pc = "fetch", !.username = username, !.token = token,
                                 !.filter = f, !.pageSize = pageSize,
                                 !.pageNumber = pageNumber,
                                 !.totalPages = Ceil(resultsCount, pageSize),
                                 !.seen = {Snapshot}]
                /\ UNCHANGED <<ret, data>>

\* SearchDoujins' fetch query: the rows of the page
SearchFetch ==
    /\ search.pc = "fetch"
    /\ \E sorted \in SearchOrders(Doujins, search.filter[1], search.filter[2],
                                  search.filter[3]) :
          LET page == LimitOffset(sorted, search.pageSize, search.pageNumber)
          IN  search' = [search EXCEPT !.pc = "lookup",
                                       !.rows = [k \in 1..Len(page) |-> Doujins[page[k]]]]
    /\ UNCHANGED <<Users, ret, issued, returned, revoked, procs, started,
                   Doujins, DoujinPages, TagSets, data, importing>>

\* SearchDoujins' loop over the rows: the first-page lookup of the next row,
\* and the return after the last
SearchLookup ==
    /\ search.pc = "lookup"
    /\ UNCHANGED <<Users, issued, returned, revoked, procs, started,
                   Doujins, DoujinPages, TagSets, importing>>
    /\ IF Len(search.entries) < Len(search.rows)
       THEN /\ search' = [search EXCEPT !.entries =
                             Append(search.entries,
                                    SearchEntry(search.rows[Len(search.entries) + 1],
                                                DoujinPages))]
            /\ UNCHANGED <<ret, data>>
       ELSE /\ search' = [search EXCEPT !.pc = "done"]
            /\ ret' = Ret("search", "OK", NoToken)
            /\ data' = Data("search", [entries |-> search.entries,
                                       total_pages |-> search.totalPages])

NextImport ==
    \/ DoRegisterUser(<<"A">>, <<"p">>)
    \/ /\ LibWrites < MaxLibWrites
       /\ DoLoginUser(<<"a">>, <<"p">>)
    \/ \E f \in Folders : ImportInsert(f)
    \/ ImportCommit
    \/ \E t \in LibTokenInputs, tags \in TagLists, pageSize \in { 1, 2 },
          pageNumber \in PageNumbers :
          SearchCount(<<"a">>, t, << <<>>, tags, <<>> >>, pageSize, pageNumber)
    \/ SearchFetch
    \/ SearchLookup

SpecImport == Init /\ [][NextImport]_vars

\* ------------------------------------------- readers while an import runs
\* the folders imported: one whose pages are complete, and two whose page
\* transaction is rolled back
PageFolders == { FolderB, FolderMissing, FolderGap }

\* GetDoujinMetadata up to its SELECT on Doujins
MetadataSelect(username, token, id) ==
    LET auth == authenticateUser(Users, username, token)
        isDoujin(r) == r.id = id
        found == SelectSeq(Doujins, isDoujin)
    IN  /\ data.kind # "row"
        /\ IF auth.err # "OK"
           THEN Returns("getDoujinMetadata", auth.err, "doujin", NoDoujin)
           ELSE IF found = <<>>
           THEN Returns("getDoujinMetadata", "InvalidId", "doujin", NoDoujin)
           ELSE /\ data' = Data("row", found[1])
                /\ UNCHANGED <<Users, ret, issued, returned, revoked, procs, started,
                               Doujins, DoujinPages, TagSets, search, importing>>

\* GetDoujinMetadata's SELECT on DoujinPages, and its return
MetadataPages ==
    LET isPageOf(r) == r.doujin_id = data.value.id
        itsPages == SelectSeq(DoujinPages, isPageOf)
    IN  /\ data.kind = "row"
        /\ Returns("getDoujinMetadata", "OK", "doujin",
                   [id |-> data.value.id, title |-> data.value.title,
                    subtitle |-> data.value.subtitle,
                    upload_date |-> data.value.upload_date,
                    tags |-> jsonUnmarshal(data.value.tags),
                    pages |-> [k \in 1..Len(itsPages) |->
                                  <<itsPages[k].page_number, itsPages[k].id>>]])

NextPages ==
    \/ DoRegisterUser(<<"A">>, <<"p">>)
    \/ /\ LibWrites < MaxLibWrites
       /\ DoLoginUser(<<"a">>, <<"p">>)
    \/ \E f \in PageFolders : ImportInsert(f)
    \/ ImportCommit
    \/ \E t \in LibTokenInputs, id \in 1..MaxLibWrites :
          MetadataSelect(<<"a">>, t, id)
    \/ MetadataPages
    \/ \E t \in LibTokenInputs, pageId \in 1..(2 * MaxLibWrites) :
          /\ data.kind # "row"
          /\ DoGetPageFilePath(<<"a">>, t, pageId)
    \/ \E t \in LibTokenInputs :
          /\ data.kind # "row"
          /\ DoSearchDoujins(<<"a">>, t, <<>>, <<>>, <<>>, 2, 1)

SpecPages == Init /\ [][NextPages]_vars

\* --------------------------------------------------------- the HTTP API
\* the DatabaseError kinds and their numeric codes (iota + 1); an error the
\* model names otherwise is an error of another type (fmt.Errorf, a driver error)
DatabaseErrorCode ==
    [kind \in { "InvalidMetadata", "InvalidSchema", "ExistentUser", "InexistentUser",
                "InvalidPassword", "DisallowedUsername", "DisallowedPassword",
                "InvalidToken", "InvalidPageNumber", "InvalidId", "Unauthorized",
                "InvalidPageSize" } |->
        CASE kind = "InvalidMetadata" -> 1 [] kind = "InvalidSchema" -> 2
          [] kind = "ExistentUser" -> 3 [] kind = "InexistentUser" -> 4
          [] kind = "InvalidPassword" -> 5 [] kind = "DisallowedUsername" -> 6
          [] kind = "DisallowedPassword" -> 7 [] kind = "InvalidToken" -> 8
          [] kind = "InvalidPageNumber" -> 9 [] kind = "InvalidId" -> 10
          [] kind = "Unauthorized" -> 11 [] kind = "InvalidPageSize" -> 12]

databaseErrorMessages ==
    [kind \in DOMAIN DatabaseErrorCode |->
        CASE kind = "InvalidMetadata" -> "Invalid database metadata"
          [] kind = "InvalidSchema" -> "Invalid database schema"
          [] kind = "ExistentUser" -> "User already exists in database"
          [] kind = "InexistentUser" -> "User does not exist in database"
          [] kind = "InvalidPassword" -> "Invalid password"
          [] kind = "DisallowedUsername" -> "Disallowed username"
          [] kind = "DisallowedPassword" -> "Disallowed password"
          [] kind = "InvalidToken" -> "Invalid token"
          [] kind = "InvalidPageNumber" -> "Invalid page number"
          [] kind = "InvalidId" -> "Invalid ID"
          [] kind = "Unauthorized" -> "Unauthorized"
          [] kind = "InvalidPageSize" -> "Invalid page size"]

\* what WriteResponseHttp sends: the status and the Response's error fields
Response(status, errorCode, errorString) ==
    [json |-> TRUE, status |-> status, error_code |-> errorCode, error_string |-> errorString]

\* the answer to an OPTIONS request: headers, no body
NoBody == [json |-> FALSE, status |-> 200, error_code |-> 0, error_string |-> ""]

OkResponse == Response(200, 0, "OK")

\* faulty variant: the text of an unclassified error is sent
errorToHttpError_Leaks(err) ==
    IF err \in DOMAIN DatabaseErrorCode
    THEN Response(500, DatabaseErrorCode[err], databaseErrorMessages[err])
    ELSE Response(500, -1, err)

errorToHttpError(err) ==
    IF err \in DOMAIN DatabaseErrorCode
    THEN Response(500, DatabaseErrorCode[err], databaseErrorMessages[err])
    ELSE Response(500, -1, "Internal server error")

\* the outcomes a handler has before it calls the Database: the Method
\* wrapper's, and decodeJson's for the handlers that read a body
Early(method, decodes, body) ==
    IF method = "OPTIONS" THEN "Options"
    ELSE IF method # "POST" THEN "InvalidMethod"
    ELSE IF decodes /\ body # "json" THEN "InvalidInput"
    ELSE "OK"

\* the response of a handler whose outcome is err
ResponseOf(err) ==
    IF err = "OK" THEN OkResponse
    ELSE IF err = "Options" THEN NoBody
    ELSE IF err = "InvalidMethod" THEN Response(405, -1, "Invalid method")
    ELSE IF err = "InvalidInput" THEN Response(400, -1, "Invalid input")
    ELSE IF err = "RegisteringDisabled" THEN Response(401, -1, "User registering is disabled")
    ELSE errorToHttpError(err)

\* faulty variant: the configuration is examined after the body is decoded
RegisterEarly_DecodeFirst(disableRegistering, method, body) ==
    IF Early(method, TRUE, body) # "OK" THEN Early(method, TRUE, body)
    ELSE IF disableRegistering THEN "RegisteringDisabled"
    ELSE "OK"

\* the outcomes the register handler has before it calls RegisterUser
RegisterEarly(disableRegistering, method, body) ==
    IF Early(method, FALSE, body) # "OK" THEN Early(method, FALSE, body)
    ELSE IF disableRegistering THEN "RegisteringDisabled"
    ELSE Early(method, TRUE, body)

Methods == { "POST", "GET", "OPTIONS" }
Bodies == { "json", "garbage" }

\* a folder whose metadata.json names no tag: the tags column holds null
FolderNoTags == [FolderA EXCEPT !.path = "Q", !.meta.tags = NilSlice]

\* a request is answered: the outcome and the response
Answer(op, err, token) ==
    /\ ret' = Ret(op, err, token)
    /\ data' = Data("response", ResponseOf(err))

\* POST /api/v1/register
HttpRegister(disableRegistering, method, body, username, password) ==
    LET early == RegisterEarly(disableRegistering, method, body)
        call == RegisterUser(Users, username, password)
        err == IF early # "OK" THEN early ELSE call.err
    IN  /\ err = "OK" => Len(Users) < MaxUsers
        /\ Users' = IF err = "OK" THEN call.users ELSE Users
        /\ Answer("register", err, NoToken)
        /\ UNCHANGED <<issued, returned, revoked, procs, started,
                       Doujins, DoujinPages, TagSets, search, importing>>

\* POST /api/v1/login
HttpLogin(method, body, username, password) ==
    LET early == Early(method, TRUE, body)
        call == LoginUser(Users, username, password,
                          FreshToken(username), FreshSalt(username))
        err == IF early # "OK" THEN early ELSE call.err
    IN  /\ err = "OK" => LibWrites < MaxLibWrites
        /\ Users' = IF err = "OK" THEN call.users ELSE Users
        /\ issued' = IF err = "OK"
                     THEN [issued EXCEPT ![Fold(username)] = NextSerial(username)]
                     ELSE issued
        /\ returned' = IF err = "OK" THEN returned \cup {call.token} ELSE returned
        /\ Answer("login", err, IF err = "OK" THEN call.token ELSE NoToken)
        /\ UNCHANGED <<revoked, procs, started,
                       Doujins, DoujinPages, TagSets, search, importing>>

\* POST /api/v1/logout
HttpLogout(method, c) ==
    LET early == Early(method, FALSE, "json")
        call == LogoutUser(Users, c[1], c[2])
        err == IF early # "OK" THEN early ELSE call.err
    IN  /\ Users' = IF err = "OK" THEN call.users ELSE Users
        /\ revoked' = IF err = "OK" THEN revoked \cup {c[2]} ELSE revoked
        /\ Answer("logout", err, NoToken)
        /\ UNCHANGED <<issued, returned, procs, started,
                       Doujins, DoujinPages, TagSets, search, importing>>

\* a handler that changes no table: needsLogin, search, tags, getTagSets
HttpRead(op, method, decodes, body, callErr) ==
    LET early == Early(method, decodes, body)
    IN  /\ Answer(op, IF early # "OK" THEN early ELSE callErr, NoToken)
        /\ UNCHANGED <<Users, issued, returned, revoked, procs, started,
                       Doujins, DoujinPages, TagSets, search, importing>>

\* a handler that writes TagSets: createTagSet, deleteTagSet, changeTagSet
HttpTagSet(op, method, body, call) ==
    LET early == Early(method, TRUE, body)
        err == IF early # "OK" THEN early ELSE call.err
    IN  /\ (op = "createTagSet" /\ err = "OK") => LibWrites < MaxLibWrites
        /\ TagSets' = IF err = "OK" THEN call.TagSets ELSE TagSets
        /\ Answer(op, err, NoToken)
        /\ UNCHANGED <<Users, issued, returned, revoked, procs, started,
                       Doujins, DoujinPages, search, importing>>

\* the requests of the API, with registering enabled or disabled
HttpRequest(disableRegistering) ==
    \/ \E method \in Methods, body \in Bodies, u \in { <<"a">>, <<"b">>, <<"a", "!">> } :
          HttpRegister(disableRegistering, method, body, u, <<"p">>)
    \/ \E method \in Methods, body \in Bodies, u \in { <<"a">>, <<"b">> },
          p \in { <<"p">>, <<"q">> } :
          HttpLogin(method, body, u, p)
    \/ \E method \in Methods, c \in TagSetCallers : HttpLogout(method, c)
    \/ \E method \in Methods, c \in TagSetCallers :
          HttpRead("needsLogin", method, FALSE, "json",
                   IsAuthDataValid(Users, c[1], c[2]).err)
    \/ \E method \in Methods, body \in Bodies, c \in TagSetCallers,
          pageSize \in { 0, 1 }, pageNumber \in { 0, 1 } :
          \E sorted \in SearchOrders(Doujins, <<>>, <<>>, <<>>) :
             HttpRead("search", method, TRUE, body,
                      SearchDoujins(Users, Doujins, DoujinPages, c[1], c[2],
                                    <<>>, <<>>, <<>>, pageSize, pageNumber, sorted).err)
    \/ \E method \in Methods, c \in TagSetCallers :
          HttpRead("tags", method, FALSE, "json", GetAllTags(Users, Doujins, c[1], c[2]).err)
    \/ \E method \in Methods, c \in TagSetCallers :
          HttpRead("getTagSets", method, FALSE, "json",
                   GetTagSets(Users, TagSets, c[1], c[2]).err)
    \/ \E method \in Methods, body \in Bodies, c \in TagSetCallers :
          HttpTagSet("createTagSet", method, body,
                     CreateTagSet(Users, TagSets, c[1], c[2],
                                  StringSlice(<<"yuri">>), NilSlice))
    \/ \E method \in Methods, body \in Bodies, c \in TagSetCallers, id \in TagSetIds :
          HttpTagSet("deleteTagSet", method, body,
                     DeleteTagSet(Users, TagSets, c[1], c[2], id))

\* the server with registering enabled, and the administrator's imports
NextHttp ==
    \/ HttpRequest(FALSE)
    \/ \E f \in { FolderA, FolderNoTags } : DoRegisterDoujin(f)

SpecHttp == Init /\ [][NextHttp]_vars

\* manage register-user: both arguments are required, then RegisterUser
ManageRegisterUser(username, password) ==
    LET call == RegisterUser(Users, username, password)
        err == IF username = <<>> \/ password = <<>> THEN "Usage" ELSE call.err
    IN  /\ err = "OK" => Len(Users) < MaxUsers
        /\ Users' = IF err = "OK" THEN call.users ELSE Users
        /\ ret' = Ret("manage register-user", err, NoToken)
        /\ data' = NoData
        /\ UNCHANGED <<issued, returned, revoked, procs, started,
                       Doujins, DoujinPages, TagSets, search, importing>>

\* the server with disable_registering = true, and the administrator's
\* register-user command
NextClosed ==
    \/ HttpRequest(TRUE)
    \/ \E u \in { <<"a">>, <<"b">>, <<>> }, p \in { <<"p">>, <<>> } :
          ManageRegisterUser(u, p)

SpecClosed == Init /\ [][NextClosed]_vars

\* ------------------------------------------------------ the mass import
\* an entry of the top folder: a sub-folder, or a file
SubFolder(folder) == [isDir |-> TRUE, folder |-> folder]
PlainFile == [isDir |-> FALSE, folder |-> NoFolder]

\* what os.ReadDir returns for the top folders tried, in its order
TopEntries ==
    { PlainFile, SubFolder(FolderB), SubFolder(FolderMissing),
      SubFolder(FolderBadMetadata) }
Listings == UNION { [1..n -> TopEntries] : n \in 0..MaxEntries }

\* faulty variant: the loop goes on after a failed import
RECURSIVE ImportDoujinsFrom_Continue(_, _, _)
ImportDoujinsFrom_Continue(doujins, pages, entries) ==
    IF entries = <<>>
    THEN [err |-> "OK", Doujins |-> doujins, DoujinPages |-> pages]
    ELSE IF ~Head(entries).isDir
    THEN ImportDoujinsFrom_Continue(doujins, pages, Tail(entries))
    ELSE ImportDoujinsFrom_Continue(
             RegisterDoujin(doujins, pages, Head(entries).folder).Doujins,
             RegisterDoujin(doujins, pages, Head(entries).folder).DoujinPages,
             Tail(entries))

\* the loop of manage import-doujins-from over the entries
RECURSIVE ImportDoujinsFrom(_, _, _)
ImportDoujinsFrom(doujins, pages, entries) ==
    IF entries = <<>>
    THEN [err |-> "OK", Doujins |-> doujins, DoujinPages |-> pages]
    ELSE IF ~Head(entries).isDir
    THEN ImportDoujinsFrom(doujins, pages, Tail(entries))
    ELSE LET call == RegisterDoujin(doujins, pages, Head(entries).folder)
         IN  IF call.err # "OK"
             THEN [err |-> call.err, Doujins |-> call.Doujins,
                   DoujinPages |-> call.DoujinPages]
             ELSE ImportDoujinsFrom(call.Doujins, call.DoujinPages, Tail(entries))

ManageImportDoujinsFrom(entries) ==
    LET run == ImportDoujinsFrom(Doujins, DoujinPages, entries)
    IN  /\ LibWrites < MaxLibWrites
        /\ Doujins' = run.Doujins
        /\ DoujinPages' = run.DoujinPages
        /\ ret' = Ret("import-doujins-from", run.err, NoToken)
        /\ data' = Data("listing", entries)
        /\ UNCHANGED <<Users, issued, returned, revoked, procs, started,
                       TagSets, search, importing>>

NextMass == \E entries \in Listings : ManageImportDoujinsFrom(entries)

SpecMass == Init /\ [][NextMass]_vars

\* ------------------------------------------- JSON files with comments
\* the characters of the texts read: the quote, the backslash, the two
\* characters comments are made of, the two line breaks and a letter
JsonCharacters == { "\"", "\\", "/", "*", "\n", "\r", "a" }
LineBreaks == { "\n", "\r" }

JsonTexts == UNION { [1..n -> JsonCharacters] : n \in 0..MaxJsonLength }

\* what removeCommentsFromJson returns: the text and the error
Stripped(text) == [text |-> text, err |-> "OK"]
UnclosedComment == [text |-> <<>>, err |-> "Unclosed comment"]

\* positions are counted from 1: position i is the code's index i - 1

\* faulty variant: the line break is skipped with the comment
RECURSIVE SkipLine_WithBreak(_, _)
SkipLine_WithBreak(json, i) ==
    IF i <= Len(json) /\ json[i] \notin LineBreaks
    THEN SkipLine_WithBreak(json, i + 1)
    ELSE i + 1

\* the loop over a line comment: where it leaves i
RECURSIVE SkipLine(_, _)
SkipLine(json, i) ==
    IF i <= Len(json) /\ json[i] \notin LineBreaks
    THEN SkipLine(json, i + 1)
    ELSE i

\* the server's loop over a block comment: where it leaves i, or 0 where it
\* returns the error
RECURSIVE SkipBlock(_, _)
SkipBlock(json, i) ==
    IF i + 1 > Len(json) THEN 0
    ELSE IF json[i] = "*" /\ json[i + 1] = "/" THEN i + 2
    ELSE SkipBlock(json, i + 1)

\* the server's main loop
RECURSIVE StripLoop(_, _, _, _, _)
StripLoop(json, i, inString, escaped, result) ==
    IF i > Len(json) THEN Stripped(result)
    ELSE
    LET c == json[i]
        inString1 == IF c = "\"" /\ ~escaped THEN ~inString ELSE inString
        escaped1 == IF c = "\\" /\ inString1 THEN ~escaped ELSE FALSE
    IN  IF ~inString1 /\ c = "/" /\ i + 1 <= Len(json) /\ json[i + 1] = "/"
        THEN StripLoop(json, SkipLine(json, i + 2), inString1, escaped1, result)
        ELSE IF ~inString1 /\ c = "/" /\ i + 1 <= Len(json) /\ json[i + 1] = "*"
        THEN IF SkipBlock(json, i + 2) = 0
             THEN UnclosedComment
             ELSE StripLoop(json, SkipBlock(json, i + 2), inString1, escaped1, result)
        ELSE StripLoop(json, i + 1, inString1, escaped1, Append(result, c))

removeCommentsFromJson(json) == StripLoop(json, 1, FALSE, FALSE, <<>>)

\* the client's loop over a block comment: where it leaves i
RECURSIVE SkipBlock_Client(_, _)
SkipBlock_Client(json, i) ==
    IF i + 1 > Len(json) THEN i
    ELSE IF json[i] = "*" /\ json[i + 1] = "/" THEN i + 2
    ELSE SkipBlock_Client(json, i + 1)

\* the client's main loop
RECURSIVE StripLoop_Client(_, _, _, _, _)
StripLoop_Client(json, i, inString, escaped, result) ==
    IF i > Len(json) THEN Stripped(result)
    ELSE
    LET c == json[i]
        inString1 == IF c = "\"" /\ ~escaped THEN ~inString ELSE inString
        escaped1 == IF c = "\\" /\ inString1 THEN ~escaped ELSE FALSE
    IN  IF ~inString1 /\ c = "/" /\ i + 1 <= Len(json) /\ json[i + 1] = "/"
        THEN StripLoop_Client(json, SkipLine(json, i + 2), inString1, escaped1, result)
        ELSE IF ~inString1 /\ c = "/" /\ i + 1 <= Len(json) /\ json[i + 1] = "*"
        THEN IF SkipBlock_Client(json, i + 2) + 1 > Len(json)
             THEN UnclosedComment
             ELSE StripLoop_Client(json, SkipBlock_Client(json, i + 2),
                                   inString1, escaped1, result)
        ELSE StripLoop_Client(json, i + 1, inString1, escaped1, Append(result, c))

\* removeCommentsFromJson of the client (index.js)
removeCommentsFromJson_Client(json) == StripLoop_Client(json, 1, FALSE, FALSE, <<>>)

\* a text is read once, by the server or by the client
InitJson ==
    /\ Users = <<>>
    /\ ret = Ret("none", "OK", NoToken)
    /\ issued = [n \in FoldedNames |-> 0]
    /\ returned = {}
    /\ revoked = {}
    /\ procs = [pr \in Procs |-> IdleProc]
    /\ started = 0
    /\ Doujins = <<>>
    /\ DoujinPages = <<>>
    /\ TagSets = NoTagSets
    /\ data \in { Data("text", json) : json \in JsonTexts }
    /\ search = IdleSearch
    /\ importing = IdleImport

ReadJson(reader, out) ==
    /\ data' = Data(reader, [json |-> data.value, out |-> out])
    /\ ret' = Ret(reader, out.err, NoToken)
    /\ UNCHANGED <<Users, issued, returned, revoked, procs, started,
                   Doujins, DoujinPages, TagSets, search, importing>>

UnmarshalJsonWithComments ==
    /\ data.kind = "text"
    /\ ReadJson("server", removeCommentsFromJson(data.value))

loadJson ==
    /\ data.kind = "text"
    /\ ReadJson("client", removeCommentsFromJson_Client(data.value))

NextJson == UnmarshalJsonWithComments \/ loadJson

SpecJson == InitJson /\ [][NextJson]_vars

\* ------------------------------------------------------------------ claims
Slice(users, i) == ToSlice(users[i].session_tokens)

\* the issued tokens that authenticate against row i
Live(users, i, toks) == { t \in toks : HasToken(users[i].session_tokens, t) }

\* a step in which a login succeeded (only a login generates a token)
LoginStep == issued' # issued

\* C1: in every reachable state each user's stored session-token list has at
\* most MaxTokensPerUser entries.
C1_TokenListBounded ==
    \A i \in 1..Len(Users) : Len(Slice(Users, i)) <= MaxTokensPerUser

\* a login has succeeded for a user who had already been issued
\* MaxTokensPerUser tokens
C1_Witness ==
    /\ ret.op = "login" /\ ret.err = "OK"
    /\ \E n \in FoldedNames : issued[n] > MaxTokensPerUser

\* C2: a successful login that invalidates a previously issued token (the
\* login of a user at the cap) leaves that user's session count at
\* MaxTokensPerUser and invalidates exactly the oldest token; every other
\* previously live token and the new token still authenticate.
C2_LoginAtCapKeepsMaxTokens ==
    [][LoginStep =>
        \A i \in 1..Len(Users) :
            LET before == Live(Users, i, IssuedTokens)
                after == Live(Users', i, IssuedTokens')
            IN  ~(before \subseteq after) =>
                    /\ Len(Slice(Users', i)) = MaxTokensPerUser
                    /\ Cardinality(before \ after) = 1
                    /\ HasToken(NewSessionTokens(<<Slice(Users, i)[1]>>),
                                CHOOSE t \in before \ after : TRUE)
                    /\ ret'.token \in after]_vars

\* C3: a login drops an entry only when the list already holds at least
\* MaxTokensPerUser entries: with fewer, every previously live token stays
\* valid; when an entry is dropped it is exactly one, the oldest.
C3_DropOnlyAtMaxTokens ==
    [][LoginStep =>
        \A i \in 1..Len(Users) :
            LET before == Live(Users, i, IssuedTokens)
                after == Live(Users', i, IssuedTokens')
            IN  /\ Len(Slice(Users, i)) < MaxTokensPerUser => before \subseteq after
                /\ Cardinality(before \ after) <= 1
                /\ \A t \in before \ after :
                       HasToken(NewSessionTokens(<<Slice(Users, i)[1]>>), t)]_vars

\* two strings that are equal ignoring the case of ASCII letters
CaseVariant(a, b) ==
    /\ Len(a) = Len(b)
    /\ \A k \in 1..Len(a) :
          \/ a[k] = b[k]
          \/ \E i \in 1..26 : {a[k], b[k]} = {UpperLetters[i], LowerLetters[i]}

\* the rows whose username equals `username` ignoring case
Matching(users, username) ==
    { i \in 1..Len(users) : CaseVariant(users[i].username, username) }

\* C4: concurrent logins and logouts of one user lose no update: once no call
\* is in flight, every token a successful login returned that was neither
\* logged out nor evicted by the cap authenticates, and no token whose logout
\* returned ok authenticates.
C4_NoLostUpdate ==
    ( /\ \A pr \in Procs : procs[pr].pc = "idle"
      /\ \A n \in FoldedNames : issued[n] < MaxTokensPerUser - 1 ) =>
        /\ \A t \in returned \ revoked : authenticateUser(Users, t[1], t).err = "OK"
        /\ \A t \in revoked : authenticateUser(Users, t[1], t).err # "OK"

\* C5: a logoutUser(u, t) that returns ok removes exactly one entry from u's
\* list and leaves every other live token of u valid; from then on, in every
\* later state, authenticateUser(u, t) returns InvalidToken and a second
\* logoutUser(u, t) returns InvalidToken.
C5_LogoutInvalidatesToken ==
    /\ \A u \in Usernames, t \in TokenInputs :
          LET call == LogoutUser(Users, u, t)
          IN  call.err = "OK" =>
                  \A i \in Matching(Users, u) :
                      /\ authenticateUser(call.users, u, t).err = "InvalidToken"
                      /\ LogoutUser(call.users, u, t).err = "InvalidToken"
                      /\ Len(Slice(call.users, i)) = Len(Slice(Users, i)) - 1
                      /\ Live(call.users, i, IssuedTokens)
                             = Live(Users, i, IssuedTokens) \ {t}
    /\ \A t \in revoked, u \in Usernames :
          CaseVariant(u, t[1]) =>
              /\ authenticateUser(Users, u, t).err = "InvalidToken"
              /\ LogoutUser(Users, u, t).err = "InvalidToken"

\* after a logout that returned ok the user has logged in again and holds
\* live tokens
C5_Witness ==
    /\ revoked # {}
    /\ ret.op = "login" /\ ret.err = "OK"
    /\ \E t \in revoked : ret.token[1] = t[1] /\ ret.token[2] > t[2] + 1

\* C6: logoutUser(u, t) with a token that is not in u's current list returns
\* InvalidToken, with an unknown username InexistentUser; in both cases no
\* user's data changes.
C6_FailedLogoutChangesNothing ==
    \A u \in Usernames, t \in TokenInputs :
        LET call == LogoutUser(Users, u, t)
        IN  /\ Matching(Users, u) = {} =>
                  call.err = "InexistentUser" /\ call.users = Users
            /\ ( /\ Matching(Users, u) # {}
                 /\ \A i \in Matching(Users, u) : ~HasToken(Users[i].session_tokens, t) ) =>
                  call.err = "InvalidToken" /\ call.users = Users

\* a logout was refused with InvalidToken while two users exist and live
\* tokens are stored
C6_Witness ==
    /\ ret.op = "logout" /\ ret.err = "InvalidToken"
    /\ Len(Users) = 2
    /\ \E i \in 1..Len(Users) : Len(Slice(Users, i)) >= 2

\* C7 as stated: registerUser with a username that is already registered in
\* any letter casing, with any password, returns ExistentUser and leaves the
\* store unchanged.
C7_ReRegisterAnyPassword ==
    \A u \in ValidUsernames, p \in Passwords :
        Matching(Users, u) # {} =>
            /\ RegisterUser(Users, u, p).err = "ExistentUser"
            /\ RegisterUser(Users, u, p).users = Users

\* C7 amended: the same for any non-empty password; with an empty password the
\* call returns DisallowedPassword, the store unchanged all the same.
C7_ReRegisterExistent ==
    \A u \in ValidUsernames, p \in Passwords :
        Matching(Users, u) # {} =>
            /\ RegisterUser(Users, u, p).users = Users
            /\ Len(p) >= 1 => RegisterUser(Users, u, p).err = "ExistentUser"
            /\ Len(p) = 0 => RegisterUser(Users, u, p).err = "DisallowedPassword"

\* a registration was refused with ExistentUser after the users logged in
C7_Witness ==
    /\ ret.op = "register" /\ ret.err = "ExistentUser"
    /\ \E i \in 1..Len(Users) : Len(Slice(Users, i)) >= 1

\* ASCII letters, digits, '.', '_' and '-'
AsciiLetters == { UpperLetters[i] : i \in 1..26 } \cup { LowerLetters[i] : i \in 1..26 }
NameCharacters == AsciiLetters \cup Digits \cup { ".", "_", "-" }

\* the usernames the validity check is probed with
Alphabet == NameCharacters \cup OtherCharacters

ProbeNames ==
    { <<>> } \cup { <<c>> : c \in Alphabet }
        \cup { <<"a", d>> : d \in Alphabet }
        \cup { <<d, "A">> : d \in Alphabet }
        \cup Usernames

\* empty, or with a character that is no ASCII letter, digit, '.', '_', '-'
NameDisallowed(u) ==
    \/ Len(u) = 0
    \/ \E k \in 1..Len(u) : u[k] \notin NameCharacters

\* C8: no two rows of Users have usernames that are equal ignoring letter
\* case, also when registerUser calls run concurrently.
C8_UsernamesUnique ==
    \A i, j \in 1..Len(Users) :
        i # j => ~CaseVariant(Users[i].username, Users[j].username)

\* C9: registerUser returns DisallowedUsername exactly when the username is
\* empty or has a character other than an ASCII letter, digit, '.', '_', '-',
\* otherwise DisallowedPassword exactly when the password is empty (also for a
\* registered username); a rejected registration adds no user.
C9_RegisterValidation ==
    \A u \in ProbeNames, p \in Passwords :
        LET call == RegisterUser(Users, u, p)
        IN  /\ call.err = "DisallowedUsername" <=> NameDisallowed(u)
            /\ call.err = "DisallowedPassword" <=> (~NameDisallowed(u) /\ Len(p) = 0)
            /\ call.err # "OK" => call.users = Users

\* a registration was refused for its password while users are registered
C9_Witness ==
    /\ ret.op = "register" /\ ret.err = "DisallowedPassword"
    /\ Len(Users) >= 1

\* C10: loginUser returns InexistentUser when no user matches the username
\* ignoring case and InvalidPassword when the password is not the registered
\* one, leaving every token list unchanged; on a match it appends exactly one
\* new entry to that user's list, and the returned token authenticates.
C10_Login ==
    \A u \in Usernames, p \in Passwords :
        LET call == LoginUser(Users, u, p, FreshToken(u), FreshSalt(u))
            m == Matching(Users, u)
        IN  /\ m = {} => call.err = "InexistentUser" /\ call.users = Users
            /\ (m # {} /\ \A i \in m : Users[i].password_hash[2] # p) =>
                  call.err = "InvalidPassword" /\ call.users = Users
            /\ \A i \in m :
                  Users[i].password_hash[2] = p =>
                      /\ call.err = "OK"
                      /\ Len(Slice(call.users, i)) >= 1
                      /\ \E k \in {0, 1} :
                            SubSeq(Slice(call.users, i), 1, Len(Slice(call.users, i)) - 1)
                                = SubSeq(Slice(Users, i), 1 + k, Len(Slice(Users, i)))
                      /\ \A k \in 1..Len(Slice(Users, i)) :
                            Slice(Users, i)[k] # Slice(call.users, i)[Len(Slice(call.users, i))]
                      /\ authenticateUser(call.users, u, call.token).err = "OK"
                      /\ \A j \in 1..Len(Users) : j \notin m => call.users[j] = Users[j]

\* a second login of a user has succeeded while another user is registered
C10_Witness ==
    /\ ret.op = "login" /\ ret.err = "OK"
    /\ Len(Users) = 2
    /\ \E i \in 1..Len(Users) : Len(Slice(Users, i)) >= 2

\* the credentials the claims probe the calls with: registered and unknown
\* usernames in either case, issued tokens and the empty token
ProbeUsers == { <<"a">>, <<"A">>, <<"b">>, <<>> }
ProbeTokens == { Token(<<"a">>, 1), Token(<<"a">>, 2), NoToken }

\* the credentials of the callers authenticateUser accepts in this state
AuthPairs ==
    { c \in LibUsernames \X ProbeTokens : authenticateUser(Users, c[1], c[2]).err = "OK" }

\* the store the library's callers read and write
Store == <<Users, Doujins, DoujinPages, TagSets>>

\* C11: isAuthDataValid(username, token) returns no error for absent or
\* invalid credentials: it returns false when the user does not exist or the
\* token is not in the user's list (also for the empty username or token) and
\* true exactly when authenticateUser(username, token) succeeds; the call
\* changes no state.
C11_IsAuthDataValid ==
    /\ [](\A u \in ProbeUsers, t \in ProbeTokens :
            LET call == IsAuthDataValid(Users, u, t)
            IN  /\ call.err = "OK"
                /\ call.valid <=> authenticateUser(Users, u, t).err = "OK"
                /\ Matching(Users, u) = {} => ~call.valid
                /\ (\A i \in Matching(Users, u) : ~HasToken(Users[i].session_tokens, t))
                      => ~call.valid)
    /\ [][ret'.op = "isAuthDataValid" => Store' = Store]_vars

\* isAuthDataValid has returned false for a registered user with a live
\* session
C11_Witness ==
    /\ ret.op = "isAuthDataValid" /\ ret.err = "OK"
    /\ data.kind = "valid" /\ data.value = FALSE
    /\ \E i \in 1..Len(Users) : Len(Slice(Users, i)) >= 1

\* what the probes pass besides the credentials
ProbePageSizes == { 0, 1, 101 }
ProbePageNumbers == { 0, 1, 4 }
ProbeIds == { 0, 1, 2, 9 }

\* C12: searchDoujins, getDoujinMetadata, getAllTags, getPageFilePath,
\* createTagSet, deleteTagSet, changeTagSet, getTagSets and getUsername return
\* InexistentUser for an unknown username and InvalidToken for a token that is
\* not in the user's list, whatever the page size, page number or id, with no
\* data and with the store unchanged.
C12_AuthenticateFirst ==
    \A u \in ProbeUsers, t \in ProbeTokens :
        LET e == authenticateUser(Users, u, t).err
        IN  /\ Matching(Users, u) = {} => e = "InexistentUser"
            /\ ( /\ Matching(Users, u) # {}
                 /\ \A i \in Matching(Users, u) : ~HasToken(Users[i].session_tokens, t) )
                  => e = "InvalidToken"
            /\ e # "OK" =>
                /\ \A tags \in TagLists :
                      \A sorted \in SearchOrders(Doujins, <<>>, tags, <<>>),
                         pageSize \in ProbePageSizes, pageNumber \in ProbePageNumbers :
                          SearchDoujins(Users, Doujins, DoujinPages, u, t, <<>>, tags, <<>>,
                                        pageSize, pageNumber, sorted)
                              = SearchError(e, {"Users"})
                /\ \A id \in ProbeIds :
                      /\ GetDoujinMetadata(Users, Doujins, DoujinPages, u, t, id)
                             = [err |-> e, doujin |-> NoDoujin]
                      /\ GetPageFilePath(Users, DoujinPages, u, t, id)
                             = [err |-> e, path |-> <<>>]
                      /\ DeleteTagSet(Users, TagSets, u, t, id)
                             = [err |-> e, TagSets |-> TagSets]
                      /\ ChangeTagSet(Users, TagSets, u, t, id, NilSlice, NilSlice)
                             = [err |-> e, TagSets |-> TagSets]
                /\ GetAllTags(Users, Doujins, u, t) = [err |-> e, tags |-> <<>>]
                /\ CreateTagSet(Users, TagSets, u, t, NilSlice, NilSlice)
                       = [err |-> e, id |-> 0, TagSets |-> TagSets]
                /\ GetTagSets(Users, TagSets, u, t) = [err |-> e, tagSets |-> <<>>]
                /\ GetUsername(Users, u, t) = [err |-> e, username |-> <<>>]

\* a search was refused with InvalidToken while the library holds a doujin and
\* a tag set
C12_Witness ==
    /\ ret.op = "search" /\ ret.err = "InvalidToken"
    /\ Len(Doujins) >= 1
    /\ Len(TagSets.rows) >= 1

\* C13: authentication matches the username ignoring letter case and
\* getUsername returns the username as stored at registration: after "A" has
\* registered and logged in, getUsername("a", token) succeeds and returns "A";
\* a login token has at least 40 characters.
C13_GetUsername ==
    /\ randomStringLen(SessionTokenLength) >= 40
    /\ \A i \in 1..Len(Users), u \in ProbeUsers, t \in ProbeTokens :
          (CaseVariant(u, Users[i].username) /\ HasToken(Users[i].session_tokens, t)) =>
              /\ Users[i].username = <<"A">>
              /\ GetUsername(Users, u, t) = [err |-> "OK", username |-> <<"A">>]

\* getUsername("a", token) has returned "A"
C13_Witness ==
    /\ ret.op = "getUsername" /\ ret.err = "OK"
    /\ data.kind = "username" /\ data.value = <<"A">>

\* the searches the claims probe
ProbeQueries == { <<>>, <<"a">>, <<"A">>, <<"b">>, <<"B","a">>, <<"%">>, <<"_">>, <<"\\">> }
ProbeTags == { <<>>, <<"yuri">>, <<"yaoi">>, <<"yuri","romance">>, <<"yuri","yaoi">> }
ProbeAntiTags == { <<>>, <<"yuri">>, <<"yaoi">> }
ValidPageSizes == { 1, 2, 100 }

\* the filters the paging claims probe
ProbeFilters == { <<>>, <<"a">> } \X TagLists \X { <<>> }

\* the number of matching doujins
Matching_N(f) == Cardinality({ i \in 1..Len(Doujins) : Matches(Doujins[i], f[1], f[2], f[3]) })

\* the least number of pages of pageSize entries that hold n entries
PagesFor(n, pageSize) == CHOOSE k \in 0..n : k * pageSize >= n /\ (k - 1) * pageSize < n

\* the search of filter f by the caller c
Search(c, f, pageSize, pageNumber, sorted) ==
    SearchDoujins(Users, Doujins, DoujinPages, c[1], c[2], f[1], f[2], f[3],
                  pageSize, pageNumber, sorted)

\* C14: an authenticated search with a valid pageSize and N > 0 matching
\* doujins returns totalPages = ceil(N / pageSize) for every pageNumber in
\* 1..totalPages and InvalidPageNumber for every larger pageNumber.
C14_TotalPages ==
    \A c \in AuthPairs, f \in ProbeFilters, pageSize \in ValidPageSizes :
        Matching_N(f) > 0 =>
            \A sorted \in SearchOrders(Doujins, f[1], f[2], f[3]) :
                /\ \A pageNumber \in 1..PagesFor(Matching_N(f), pageSize) :
                      LET call == Search(c, f, pageSize, pageNumber, sorted)
                      IN  /\ call.err = "OK"
                          /\ call.result.total_pages = PagesFor(Matching_N(f), pageSize)
                /\ \A more \in 1..2 :
                      Search(c, f, pageSize, PagesFor(Matching_N(f), pageSize) + more, sorted).err
                          = "InvalidPageNumber"

\* a search has returned two pages in total
C14_Witness ==
    /\ ret.op = "search" /\ ret.err = "OK"
    /\ data.kind = "search" /\ data.value.total_pages = 2

\* C15: when no doujin matches, searchDoujins returns an empty result with
\* totalPages 0 and no error for every pageNumber >= 1.
C15_NoMatch ==
    \A c \in AuthPairs, f \in ProbeFilters, pageSize \in ValidPageSizes :
        Matching_N(f) = 0 =>
            \A pageNumber \in 1..4 :
                LET call == Search(c, f, pageSize, pageNumber, <<>>)
                IN  /\ call.err = "OK"
                    /\ call.result.entries = <<>>
                    /\ call.result.total_pages = 0

\* a search has returned the empty result while the library holds a doujin
C15_Witness ==
    /\ ret.op = "search" /\ ret.err = "OK"
    /\ data.kind = "search" /\ data.value.total_pages = 0
    /\ Len(Doujins) >= 1

\* the instant an upload_date text denotes
UploadInstant(text) ==
    text.local - (IF text.zone = "-" THEN 0 - text.hours ELSE text.hours)

\* the entries of page pageNumber of the search of filter f by the caller c
PageEntries(c, f, pageSize, pageNumber, sorted) ==
    Search(c, f, pageSize, pageNumber, sorted).result.entries

\* C16: search results come most recent upload first: on a returned page no
\* entry is older than an entry after it, and no entry of page p is older than
\* an entry of page p+1, whatever time-zone offsets the upload dates were
\* imported with.
C16_NewestFirst ==
    \A c \in AuthPairs, f \in ProbeFilters, pageSize \in { 1, 2 } :
        \A sorted \in SearchOrders(Doujins, f[1], f[2], f[3]) :
            \A p \in 1..PagesFor(Matching_N(f), pageSize) :
                LET here == PageEntries(c, f, pageSize, p, sorted)
                    next == IF p < PagesFor(Matching_N(f), pageSize)
                            THEN PageEntries(c, f, pageSize, p + 1, sorted) ELSE <<>>
                IN  /\ \A i, j \in 1..Len(here) :
                          i < j => UploadInstant(here[i].upload_date)
                                       >= UploadInstant(here[j].upload_date)
                    /\ \A i \in 1..Len(here), j \in 1..Len(next) :
                          UploadInstant(here[i].upload_date)
                              >= UploadInstant(next[j].upload_date)

\* q occurs in s, character for character
IsSubstring(q, s) ==
    \E k \in 0..(Len(s) - Len(q)) : SubSeq(s, k + 1, k + Len(q)) = q

\* the doujin's tag set
TagSetOf(d) ==
    { jsonUnmarshal(d.tags).elems[k] : k \in 1..Len(jsonUnmarshal(d.tags).elems) }

\* every tag is in the doujin's tag set and no anti-tag is
TagsAllow(d, tags, antiTags) ==
    /\ \A k \in 1..Len(tags) : tags[k] \in TagSetOf(d)
    /\ \A k \in 1..Len(antiTags) : antiTags[k] \notin TagSetOf(d)

\* the ids of the doujins a search for everything on one page returns
Found(c, q, tags, antiTags, sorted) ==
    LET entries == Search(c, <<q, tags, antiTags>>, 100, 1, sorted).result.entries
    IN  { entries[k].id : k \in 1..Len(entries) }

\* C17 as stated: a search returns a doujin exactly when every tag is in its
\* tag set, no anti-tag is, and the query is a substring of its title or
\* subtitle.
C17_MatchExactly ==
    \A c \in AuthPairs, q \in ProbeQueries, tags \in ProbeTags, antiTags \in ProbeAntiTags :
        \A sorted \in SearchOrders(Doujins, q, tags, antiTags) :
            \A i \in 1..Len(Doujins) :
                Doujins[i].id \in Found(c, q, tags, antiTags, sorted) <=>
                    /\ TagsAllow(Doujins[i], tags, antiTags)
                    /\ \/ IsSubstring(q, Doujins[i].title)
                       \/ IsSubstring(q, Doujins[i].subtitle)

\* C17 amended: the same with the query a substring of the title or subtitle
\* ignoring the case of ASCII letters.
C17_MatchNoCase ==
    \A c \in AuthPairs, q \in ProbeQueries, tags \in ProbeTags, antiTags \in ProbeAntiTags :
        \A sorted \in SearchOrders(Doujins, q, tags, antiTags) :
            \A i \in 1..Len(Doujins) :
                Doujins[i].id \in Found(c, q, tags, antiTags, sorted) <=>
                    /\ TagsAllow(Doujins[i], tags, antiTags)
                    /\ \/ IsSubstring(Fold(q), Fold(Doujins[i].title))
                       \/ IsSubstring(Fold(q), Fold(Doujins[i].subtitle))

\* a search has returned the doujin tagged yuri and romance and left out the
\* other doujin of the library
C17_Witness ==
    /\ ret.op = "search" /\ ret.err = "OK"
    /\ data.kind = "search" /\ data.value.total_pages = 1
    /\ Len(data.value.entries) = 1
    /\ data.value.entries[1].tags = StringSlice(<<"yuri", "romance">>)
    /\ \E i \in 1..Len(Doujins) : "yuri" \notin TagSetOf(Doujins[i])

C20_PageChecks ==
    \A c \in AuthPairs, pageSize \in { -1, 0, 1, 100, 101 }, pageNumber \in { -1, 0, 1, 2 } :
        \A sorted \in SearchOrders(Doujins, <<>>, <<>>, <<>>) :
            LET call == Search(c, << <<>>, <<>>, <<>> >>, pageSize, pageNumber, sorted)
            IN  /\ call.err = "InvalidPageSize" <=> (pageSize < 1 \/ pageSize > 100)
                /\ (pageSize >= 1 /\ pageSize <= 100 /\ pageNumber < 1)
                      => call.err = "InvalidPageNumber"
                /\ (pageSize < 1 \/ pageSize > 100 \/ pageNumber < 1)
                      => /\ "Doujins" \notin call.queried
                         /\ call.result = NoSearchResult

\* a search was refused with InvalidPageSize while the library holds doujins
C20_Witness ==
    /\ ret.op = "search" /\ ret.err = "InvalidPageSize"
    /\ Len(Doujins) >= 2

\* the results an atomic search of the call in flight returns on a store
AtomicResults(store) ==
    { SearchDoujins(Users, store.Doujins, store.DoujinPages,
                    search.username, search.token,
                    search.filter[1], search.filter[2], search.filter[3],
                    search.pageSize, search.pageNumber, sorted).result :
        sorted \in SearchOrders(store.Doujins, search.filter[1], search.filter[2],
                                search.filter[3]) }

\* C19: searchDoujins reads the store as one atomic operation: when an import
\* inserts a Doujins row or commits pages between the count and the fetch, or
\* between the fetch and a first-page lookup, the returned total_pages,
\* entries and first-page ids are those of one single state the store had
\* during the call.
C19_SearchAtomic ==
    search.pc = "done" =>
        \E store \in search.seen : data.value \in AtomicResults(store)

\* the rows of DoujinPages that are page 1 of the doujin
FirstPages(doujinId) ==
    { j \in 1..Len(DoujinPages) :
        DoujinPages[j].doujin_id = doujinId /\ DoujinPages[j].page_number = 1 }

\* C21: an authenticated search of a store that holds doujins succeeds, and
\* each entry carries as its only page the id of the doujin's DoujinPages row
\* with page_number 1, or id 0 when the doujin has no such row (a Doujins row
\* a failed import left).
C21_FirstPage ==
    \A c \in AuthPairs :
        \A sorted \in SearchOrders(Doujins, <<>>, <<>>, <<>>) :
            LET call == Search(c, << <<>>, <<>>, <<>> >>, 100, 1, sorted)
            IN  /\ call.err = "OK"
                /\ Len(call.result.entries) = Len(Doujins)
                /\ \A k \in 1..Len(call.result.entries) :
                      LET e == call.result.entries[k]
                      IN  IF FirstPages(e.id) = {}
                          THEN e.pages = << <<1, 0>> >>
                          ELSE \E j \in FirstPages(e.id) :
                                  e.pages = << <<1, DoujinPages[j].id>> >>

\* a search returned a doujin without pages next to one with two pages
C21_Witness ==
    /\ ret.op = "search" /\ ret.err = "OK" /\ data.kind = "search"
    /\ \E k \in 1..Len(data.value.entries) :
          /\ data.value.entries[k].pages = << <<1, 0>> >>
          /\ FirstPages(data.value.entries[k].id) = {}
    /\ \E k \in 1..Len(data.value.entries) :
          /\ data.value.entries[k].pages # << <<1, 0>> >>
          /\ Cardinality({ j \in 1..Len(DoujinPages) :
                             DoujinPages[j].doujin_id = data.value.entries[k].id }) = 2

\* the entries of a folder that are page files: files whose name names a page
Qualifying(folder) ==
    { k \in 1..Len(folder.entries) :
        ~folder.entries[k].isDir /\ pageNameToPageNumber(folder.entries[k].name) # -1 }

\* the folders whose metadata.json decodes
Decodable == { f \in ProbeFolders : f.metadata = "ok" }

\* the import of a folder into the store as it is
Import(folder) == RegisterDoujin(Doujins, DoujinPages, folder)

\* C22: RegisterDoujin fails with "missing pages" exactly when the folder has
\* fewer qualifying page files than the declared page count and with "too many
\* pages" exactly when it has more; in both cases DoujinPages is as before.
C22_PageCount ==
    \A f \in Decodable :
        LET found == Cardinality(Qualifying(f))
        IN  /\ Import(f).err = "MissingPages" <=> found < f.meta.pages
            /\ Import(f).err = "TooManyPages" <=> found > f.meta.pages
            /\ found # f.meta.pages => Import(f).DoujinPages = DoujinPages

\* the import of the folder that declares 3 pages and holds two failed as
\* missing pages, after an import that stored a page
C22_Witness ==
    /\ ret.op = "import" /\ ret.err = "MissingPages"
    /\ Len(Doujins) = 2 /\ Doujins[2].pages = 3
    /\ Len(DoujinPages) = 1
    /\ Cardinality(Qualifying(FolderMissing)) = 2
    /\ Import(FolderTooMany).err = "TooManyPages"

\* the page numbers of a folder's page files, in the order of its entries
QualifyingNumbers(folder) ==
    LET isPage(e) == ~e.isDir /\ pageNameToPageNumber(e.name) # -1
        files == SelectSeq(folder.entries, isPage)
    IN  [k \in 1..Len(files) |-> pageNameToPageNumber(files[k].name)]

\* the i-th smallest of the numbers, counting repetitions
NthSmallest(nums, i) ==
    CHOOSE v \in { nums[k] : k \in 1..Len(nums) } :
        /\ Cardinality({ k \in 1..Len(nums) : nums[k] < v }) < i
        /\ i <= Cardinality({ k \in 1..Len(nums) : nums[k] <= v })

\* the positions of the ascending order that do not hold their own number
OutOfPlace(nums) == { i \in 1..Len(nums) : NthSmallest(nums, i) # i }

\* C23: when the folder has as many page files as the declared count N but
\* their numbers are not exactly 1..N, RegisterDoujin fails as "not
\* sequential", naming the first position i of the ascending order whose
\* number is not i as expected, and that number as found, and DoujinPages is
\* as before; 1.png, 2.png, 4.png for N = 3 gives expected 3, found 4.
C23_NotSequential ==
    /\ \A f \in Decodable :
          LET nums == QualifyingNumbers(f)
          IN  (Len(nums) = f.meta.pages /\ OutOfPlace(nums) # {}) =>
                 /\ Import(f).err = "NotSequential"
                 /\ Import(f).expected \in OutOfPlace(nums)
                 /\ \A i \in OutOfPlace(nums) : Import(f).expected <= i
                 /\ Import(f).found = NthSmallest(nums, Import(f).expected)
                 /\ Import(f).DoujinPages = DoujinPages
    /\ Import(FolderGap).expected = 3 /\ Import(FolderGap).found = 4
    /\ Import(FolderDuplicate).expected = 2 /\ Import(FolderDuplicate).found = 1
    /\ Import(FolderZero).expected = 1 /\ Import(FolderZero).found = 0
    /\ Import(FolderUnordered).expected = 2 /\ Import(FolderUnordered).found = 3

\* the import of the folder holding 1.png, 2.png and 4.png failed as not
\* sequential, after an import that stored pages
C23_Witness ==
    /\ ret.op = "import" /\ ret.err = "NotSequential"
    /\ Len(Doujins) >= 2 /\ Doujins[Len(Doujins)].pages = 3
    /\ DoujinPages # <<>>
    /\ QualifyingNumbers(FolderGap) = <<1, 2, 4>>

\* the page files of the folder are numbered 1..N, each number once
NumberedOneTo(folder, N) ==
    LET nums == QualifyingNumbers(folder)
    IN  /\ Len(nums) = N
        /\ \A v \in 1..N : Cardinality({ k \in 1..Len(nums) : nums[k] = v }) = 1

\* the rows of a DoujinPages table that belong to the doujin
PagesOf(pages, doujinId) == { k \in 1..Len(pages) : pages[k].doujin_id = doujinId }

\* C24: for a folder whose metadata.json decodes, RegisterDoujin returns
\* success exactly when the page files are numbered 1..N, N the declared page
\* count, each number once; after success the store has its earlier rows, one
\* new Doujins row with page count N, and N new DoujinPages rows of that
\* doujin with the page numbers 1..N.
C24_CommitIffValid ==
    \A f \in Decodable :
        LET N == f.meta.pages
            after == Import(f)
            id == Len(Doujins) + 1
        IN  /\ after.err = "OK" <=> NumberedOneTo(f, N)
            /\ after.err = "OK" =>
                  /\ Len(after.Doujins) = Len(Doujins) + 1
                  /\ SubSeq(after.Doujins, 1, Len(Doujins)) = Doujins
                  /\ after.Doujins[id].id = id
                  /\ after.Doujins[id].pages = N
                  /\ \A k \in 1..Len(Doujins) : Doujins[k].id # id
                  /\ Len(after.DoujinPages) = Len(DoujinPages) + N
                  /\ SubSeq(after.DoujinPages, 1, Len(DoujinPages)) = DoujinPages
                  /\ \A k \in (Len(DoujinPages) + 1)..Len(after.DoujinPages) :
                        after.DoujinPages[k].doujin_id = id
                  /\ \A v \in 1..N :
                        Cardinality({ k \in PagesOf(after.DoujinPages, id) :
                                        after.DoujinPages[k].page_number = v }) = 1

\* the import of the two-page folder succeeded after a failed import: the
\* store holds its Doujins row and its two pages
C24_Witness ==
    /\ ret.op = "import" /\ ret.err = "OK"
    /\ Len(Doujins) >= 2
    /\ Doujins[Len(Doujins)].pages = 2
    /\ Cardinality(PagesOf(DoujinPages, Len(Doujins))) = 2
    /\ \E k \in 1..(Len(Doujins) - 1) :
          Doujins[k].pages # Cardinality(PagesOf(DoujinPages, k))

\* C25: in every reachable state, the page numbers of the DoujinPages rows of
\* every Doujins row are unique and are exactly 1..pages of that row.
C25_PagesContiguous ==
    \A i \in 1..Len(Doujins) :
        /\ Cardinality(PagesOf(DoujinPages, Doujins[i].id)) = Doujins[i].pages
        /\ \A v \in 1..Doujins[i].pages :
              Cardinality({ k \in PagesOf(DoujinPages, Doujins[i].id) :
                              DoujinPages[k].page_number = v }) = 1

\* an import failed in its page transaction: its count or sequence check
PageFailures == { "MissingPages", "TooManyPages", "NotSequential" }

\* the ids of the doujins a search for everything returns to the caller c
AllFound(users, doujins, pages, c) ==
    { SearchDoujins(users, doujins, pages, c[1], c[2], <<>>, <<>>, <<>>, 100, 1, sorted)
          .result.entries :
        sorted \in SearchOrders(doujins, <<>>, <<>>, <<>>) }

\* C26: when RegisterDoujin fails in its page transaction, DoujinPages is as
\* before and Doujins has gained exactly one row, with the declared page count
\* and no page; an authenticated search for everything returns that row (with
\* first page id 0), getAllTags returns its tags, and importing the same
\* folder again adds one more such row.
C26_OrphanRow ==
    \A f \in Decodable :
        LET once == Import(f)
            twice == RegisterDoujin(once.Doujins, once.DoujinPages, f)
            id == Len(Doujins) + 1
        IN  once.err \in PageFailures =>
              /\ once.DoujinPages = DoujinPages
              /\ Len(once.Doujins) = Len(Doujins) + 1
              /\ SubSeq(once.Doujins, 1, Len(Doujins)) = Doujins
              /\ once.Doujins[id].id = id
              /\ once.Doujins[id].title = f.meta.title
              /\ PagesOf(once.DoujinPages, id) = {}
              /\ twice.err = once.err
              /\ twice.DoujinPages = DoujinPages
              /\ Len(twice.Doujins) = Len(Doujins) + 2
              /\ twice.Doujins[id + 1].title = f.meta.title
              /\ \A c \in AuthPairs :
                    /\ \A entries \in AllFound(Users, once.Doujins, once.DoujinPages, c) :
                          \E k \in 1..Len(entries) :
                             /\ entries[k].id = id
                             /\ entries[k].pages = << <<1, 0>> >>
                    /\ GetAllTags(Users, once.Doujins, c[1], c[2]).err = "OK"
                    /\ \A k \in 1..Len(f.meta.tags.elems) :
                          \E j \in 1..Len(GetAllTags(Users, once.Doujins, c[1], c[2]).tags) :
                             GetAllTags(Users, once.Doujins, c[1], c[2]).tags[j]
                                 = f.meta.tags.elems[k]

\* the same failing folder was imported twice: two Doujins rows without pages,
\* and getAllTags returned their tag
C26_Witness ==
    /\ Len(Doujins) = 2 /\ DoujinPages = <<>>
    /\ Doujins[1].title = Doujins[2].title /\ Doujins[1].pages = 3
    /\ ret.op = "getAllTags" /\ ret.err = "OK"
    /\ data.kind = "tags" /\ data.value # <<>>

\* C27: when metadata.json cannot be opened or decoded, RegisterDoujin fails
\* and the Doujins and DoujinPages tables are as before.
C27_FailFast ==
    \A f \in ProbeFolders :
        f.metadata # "ok" =>
            /\ Import(f).err \in {"OpenFailed", "DecodeFailed"}
            /\ Import(f).Doujins = Doujins
            /\ Import(f).DoujinPages = DoujinPages

\* the import of a folder whose metadata.json does not decode failed, on a
\* store that holds doujins and pages
C27_Witness ==
    /\ ret.op = "import" /\ ret.err = "DecodeFailed"
    /\ Len(Doujins) >= 2 /\ DoujinPages # <<>>

\* C28: when metadata.json does not decode, the error RegisterDoujin returns
\* is the DatabaseError of kind InvalidMetadata.
C28_DecodeKind ==
    \A f \in ProbeFolders :
        f.metadata = "invalid" =>
            /\ Import(f).err \in DOMAIN DatabaseErrorCode
            /\ DatabaseErrorCode[Import(f).err] = DatabaseErrorCode["InvalidMetadata"]

\* a file name without its last extension
WithoutExtension(name) ==
    IF \E k \in 1..Len(name) : name[k] = "."
    THEN SubSeq(name, 1, (CHOOSE k \in 1..Len(name) :
                             name[k] = "." /\ \A j \in (k + 1)..Len(name) : name[j] # ".") - 1)
    ELSE name

\* a nonempty string of decimal digits
IsUnsignedDecimal(s) == s # <<>> /\ \A k \in 1..Len(s) : s[k] \in Digits

\* a directory entry that names a page: a file whose name without its last
\* extension is an unsigned decimal integer
NamesPage(e) == ~e.isDir /\ IsUnsignedDecimal(WithoutExtension(e.name))

\* the import of each of the folders inserts, in its transaction, one
\* DoujinPages row per entry that names a page, in the order of the entries,
\* with the file's path and the number its name denotes
PageFilesAsNamed(folders) ==
    \A f \in folders :
        LET id == Len(Doujins) + 1
            inserted == InsertPages(DoujinPages, id, f.path, f.entries)
            named == SelectSeq(f.entries, NamesPage)
        IN  /\ Len(inserted) = Len(DoujinPages) + Len(named)
            /\ \A k \in 1..Len(named) :
                  LET row == inserted[Len(DoujinPages) + k]
                      digits == StripZeros(WithoutExtension(named[k].name))
                  IN  /\ row.doujin_id = id
                      /\ row.page_path = <<f.path, named[k].name>>
                      /\ Len(digits) < Len(UintRange) => row.page_number = DecimalValue(digits)

\* C29: during import, directories and files whose name without its last
\* extension is not an unsigned decimal integer (metadata.json, cover.png,
\* 1.tar.gz, -1.png) give no DoujinPages row and do not count as pages; every
\* other file counts as the page its number denotes, whatever its extension
\* and zero padding (1.png, 01.jpg and 1 are page 1).
C29_PageFiles ==
    /\ PageFilesAsNamed(Decodable \cup { FolderHuge })
    /\ QualifyingNumbers(FolderMixed) = <<1, 2>>
    /\ pageNameToPageNumber(<<"1", ".", "p", "n", "g">>) = 1
    /\ pageNameToPageNumber(<<"0", "1", ".", "j", "p", "g">>) = 1
    /\ pageNameToPageNumber(<<"1">>) = 1

\* the callers of the tag-set calls whose credentials are valid
TagSetAuthPairs ==
    { c \in TagSetCallers : authenticateUser(Users, c[1], c[2]).err = "OK" }

\* the owners of the rows of TagSets with the id
OwnersOf(tagSets, tagSetId) ==
    { tagSets.rows[k].user_id :
        k \in { k \in 1..Len(tagSets.rows) : tagSets.rows[k].id = tagSetId } }

\* deleteTagSet and changeTagSet of an authenticated caller: InvalidId exactly
\* when no tag set has the id, Unauthorized exactly when one has and another
\* user owns it, and in both cases TagSets is as before
TagSetRefusals ==
    \A c \in TagSetAuthPairs, id \in 0..(MaxTagSets + 1) :
        LET userId == authenticateUser(Users, c[1], c[2]).id
            del == DeleteTagSet(Users, TagSets, c[1], c[2], id)
            chg == ChangeTagSet(Users, TagSets, c[1], c[2], id,
                                StringSlice(<<>>), StringSlice(<<"yaoi">>))
        IN  /\ del.err = "InvalidId" <=> OwnersOf(TagSets, id) = {}
            /\ chg.err = "InvalidId" <=> OwnersOf(TagSets, id) = {}
            /\ del.err = "Unauthorized"
                  <=> (OwnersOf(TagSets, id) # {} /\ userId \notin OwnersOf(TagSets, id))
            /\ chg.err = "Unauthorized"
                  <=> (OwnersOf(TagSets, id) # {} /\ userId \notin OwnersOf(TagSets, id))
            /\ del.err # "OK" => del.TagSets = TagSets
            /\ chg.err # "OK" => chg.TagSets = TagSets

\* a step leaves every tag set as it is unless a DELETE or UPDATE of a call
\* authenticated as the tag set's owner runs; it leaves the owner of every
\* tag set, and gives no new tag set the id of an earlier one
OwnerOnly ==
    /\ \A k \in 1..Len(TagSets.rows) :
          LET r == TagSets.rows[k]
              after == { TagSets'.rows[j] :
                           j \in { j \in 1..Len(TagSets'.rows) : TagSets'.rows[j].id = r.id } }
          IN  /\ \A r2 \in after : r2.user_id = r.user_id
              /\ after # {r} =>
                    \E pr \in Procs :
                       /\ procs[pr].pc \in {"delete_exec", "change_exec"}
                       /\ procs'[pr].pc = "idle"
                       /\ procs[pr].tagSetId = r.id
                       /\ procs[pr].userId = r.user_id
                       /\ \E i \in 1..Len(Users) :
                             /\ Users[i].id = r.user_id
                             /\ Fold(Users[i].username) = Fold(procs[pr].username)
    /\ \A j \in 1..Len(TagSets'.rows) :
          \/ \E k \in 1..Len(TagSets.rows) : TagSets.rows[k].id = TagSets'.rows[j].id
          \/ TagSets'.rows[j].id > TagSets.seq

\* C30: deleteTagSet and changeTagSet return InvalidId when no tag set has the
\* id and Unauthorized when the tag set's owner is not the authenticated user,
\* changing no tag set; under any interleaving of the statements of tag-set
\* calls of several users, a tag set is modified or deleted only by a call
\* authenticated as its owner, and its owner never changes.
C30_OwnerOnly == []TagSetRefusals /\ [][OwnerOnly]_vars

\* the second user's changeTagSet was refused as Unauthorized; of the owner's
\* two tag sets one is deleted and the other changed
C30_Witness ==
    /\ ret.op = "changeTagSet" /\ ret.err = "Unauthorized"
    /\ TagSets.seq = 2 /\ Len(TagSets.rows) = 1
    /\ TagSets.rows[1].anti_tags = jsonEncode(StringSlice(<<"yaoi">>))

\* the lists a tag set is examined with: no list, the empty list, two tags
ProbeLists == { NilSlice, StringSlice(<<>>), StringSlice(<<"yuri", "yaoi">>) }

\* what getTagSets returns to the caller c on a TagSets table
TagSetsOf(tagSets, c) == GetTagSets(Users, tagSets, c[1], c[2]).tagSets

\* the entries with the id among those getTagSets returned
EntriesOf(entries, id) == { k \in 1..Len(entries) : entries[k].id = id }

\* the list of entries holds (id, tags, antiTags) and no other entry with the id
HoldsOnce(entries, id, tags, antiTags) ==
    /\ Cardinality(EntriesOf(entries, id)) = 1
    /\ \A k \in EntriesOf(entries, id) :
          entries[k] = [id |-> id, tags |-> tags, anti_tags |-> antiTags]

\* C31: getTagSets returns to an authenticated user exactly the tag sets that
\* user created and has not deleted, never another user's; after
\* createTagSet(tags, antiTags) returned k it holds (k, tags, antiTags) with
\* the lists as given, after changeTagSet(k, tags2, antiTags2) it holds
\* (k, tags2, antiTags2), and after deleteTagSet(k) it holds no entry with id k.
C31_GetTagSets ==
    \A c \in TagSetAuthPairs :
        LET userId == authenticateUser(Users, c[1], c[2]).id
            mine == { k \in 1..Len(TagSets.rows) : TagSets.rows[k].user_id = userId }
            got == TagSetsOf(TagSets, c)
        IN  /\ GetTagSets(Users, TagSets, c[1], c[2]).err = "OK"
            /\ Len(got) = Cardinality(mine)
            /\ \A k \in mine :
                  \E j \in 1..Len(got) :
                     /\ got[j].id = TagSets.rows[k].id
                     /\ jsonEncode(got[j].tags) = TagSets.rows[k].tags
                     /\ jsonEncode(got[j].anti_tags) = TagSets.rows[k].anti_tags
            /\ \A tags \in ProbeLists, antiTags \in ProbeLists :
                  LET created == CreateTagSet(Users, TagSets, c[1], c[2], tags, antiTags)
                      changed == ChangeTagSet(Users, created.TagSets, c[1], c[2],
                                              created.id, antiTags, tags)
                      deleted == DeleteTagSet(Users, changed.TagSets, c[1], c[2], created.id)
                  IN  /\ created.err = "OK" /\ changed.err = "OK" /\ deleted.err = "OK"
                      /\ EntriesOf(got, created.id) = {}
                      /\ HoldsOnce(TagSetsOf(created.TagSets, c), created.id, tags, antiTags)
                      /\ HoldsOnce(TagSetsOf(changed.TagSets, c), created.id, antiTags, tags)
                      /\ EntriesOf(TagSetsOf(deleted.TagSets, c), created.id) = {}
                      /\ TagSetsOf(deleted.TagSets, c) = got
                      /\ \A other \in TagSetAuthPairs \ {c} :
                            /\ TagSetsOf(created.TagSets, other) = TagSetsOf(TagSets, other)
                            /\ EntriesOf(TagSetsOf(created.TagSets, other), created.id) = {}

\* getTagSets returned one user's changed tag set while the other user owns a
\* tag set too
C31_Witness ==
    /\ ret.op = "getTagSets" /\ ret.err = "OK" /\ data.kind = "tagSets"
    /\ Len(data.value) = 1
    /\ data.value[1].anti_tags = StringSlice(<<"yaoi">>)
    /\ Len(TagSets.rows) = 2
    /\ TagSets.rows[1].user_id # TagSets.rows[2].user_id

\* the failures a handler detects itself, before it calls the Database
HandlerFailures == { "InvalidMethod", "InvalidInput", "RegisteringDisabled" }

\* the JSON response of the request just answered
Answered == data.kind = "response" /\ data.value.json

\* the 12 kinds have 12 different positive codes
CodesDistinct ==
    /\ Cardinality(DOMAIN DatabaseErrorCode) = 12
    /\ \A k \in DOMAIN DatabaseErrorCode : DatabaseErrorCode[k] > 0
    /\ \A k1, k2 \in DOMAIN DatabaseErrorCode :
          DatabaseErrorCode[k1] = DatabaseErrorCode[k2] => k1 = k2

\* a response carries error_code 0 exactly when the operation succeeded, and
\* a failure of a typed kind carries the code and the message of the kind
TypedCodes ==
    Answered =>
        /\ data.value.error_code = 0 <=> ret.err = "OK"
        /\ ret.err \in DOMAIN DatabaseErrorCode =>
              /\ data.value.error_code = DatabaseErrorCode[ret.err]
              /\ data.value.error_string = databaseErrorMessages[ret.err]

ProbeTagValues == { <<>>, <<"yuri">>, <<"yaoi">>, <<"%">>, <<"yuri", "%">>, <<"_", "yaoi">> }

\* tags and anti-tags are bound as parameters: the text of the statement is
\* the same for lists of the same lengths, whatever their values and the
\* query, and the lists are among the parameters as given
TagsAreParameters ==
    \A q1 \in ProbeQueries, q2 \in ProbeQueries, count \in BOOLEAN :
        \A t1 \in ProbeTagValues, t2 \in ProbeTagValues, a1 \in ProbeTagValues,
           a2 \in ProbeTagValues :
            LET s1 == buildSearchQuery(q1, t1, a1, 1, 1, count)
                s2 == buildSearchQuery(q2, t2, a2, 1, 1, count)
            IN  /\ (Len(t1) = Len(t2) /\ Len(a1) = Len(a2)) => s1.text = s2.text
                /\ SubSeq(s1.parameters, 3, 2 + Len(t1)) = t1
                /\ SubSeq(s1.parameters, 3 + Len(t1), 2 + Len(t1) + Len(a1)) = a1

\* a title or subtitle of the doujin holds the character
HasCharacter(d, ch) ==
    \/ \E k \in 1..Len(d.title) : d.title[k] = ch
    \/ \E k \in 1..Len(d.subtitle) : d.subtitle[k] = ch

\* C33 as stated: the query is matched literally: a search returns a doujin
\* only if the query itself is a substring of the title or subtitle, the
\* queries "%" and "_" return only doujins holding that character, and tags
\* and anti-tags are bound as parameters.
C33_QueryLiteral ==
    /\ TagsAreParameters
    /\ \A c \in AuthPairs, q \in ProbeQueries :
          \A sorted \in SearchOrders(Doujins, q, <<>>, <<>>) :
              \A i \in 1..Len(Doujins) :
                  Doujins[i].id \in Found(c, q, <<>>, <<>>, sorted) =>
                      \/ IsSubstring(q, Doujins[i].title)
                      \/ IsSubstring(q, Doujins[i].subtitle)

\* C33, amended: a search returns a doujin only if the query is, ignoring the
\* case of ASCII letters, a substring of the title or subtitle: %, _ and \ of
\* the query stand for themselves (the queries "%" and "_" return exactly the
\* doujins holding that character), and tags and anti-tags are bound as
\* parameters.
C33_QueryLiteralNoCase ==
    /\ TagsAreParameters
    /\ \A c \in AuthPairs, q \in ProbeQueries :
          \A sorted \in SearchOrders(Doujins, q, <<>>, <<>>) :
              \A i \in 1..Len(Doujins) :
                  /\ Doujins[i].id \in Found(c, q, <<>>, <<>>, sorted) =>
                        \/ IsSubstring(Fold(q), Fold(Doujins[i].title))
                        \/ IsSubstring(Fold(q), Fold(Doujins[i].subtitle))
                  /\ q \in { <<"%">>, <<"_">>, <<"\\">> } =>
                        (Doujins[i].id \in Found(c, q, <<>>, <<>>, sorted)
                            <=> HasCharacter(Doujins[i], q[1]))

\* a search for "%" returned the one doujin whose title holds a "%" and left
\* out a doujin whose title and subtitle hold none
C33_Witness ==
    /\ ret.op = "search" /\ ret.err = "OK" /\ data.kind = "search"
    /\ data.value.total_pages = 1 /\ Len(data.value.entries) = 1
    /\ \E k \in 1..Len(data.value.entries[1].title) : data.value.entries[1].title[k] = "%"
    /\ Len(Doujins) = 2
    /\ \E i \in 1..Len(Doujins) : ~HasCharacter(Doujins[i], "%")

\* the rows of Users whose session-token list a step changes
TokensChanged ==
    { i \in 1..Len(Users) : Users'[i].session_tokens # Users[i].session_tokens }

\* a step deletes no user and leaves the id, username, password hash and salt
\* of every user
UsersKept ==
    /\ Len(Users') >= Len(Users)
    /\ \A i \in 1..Len(Users) :
          /\ Users'[i].id = Users[i].id
          /\ Users'[i].username = Users[i].username
          /\ Users'[i].password_hash = Users[i].password_hash
          /\ Users'[i].password_salt = Users[i].password_salt

\* C34: users are only created, never deleted, and a user's id, username,
\* password hash and salt never change; a step of loginUser or logoutUser
\* changes the session-token list of one user only and leaves every other
\* user's list, the doujins, the pages and the tag sets; every other step
\* changes no token list.
C34_Frame ==
    [][ /\ UsersKept
        /\ Cardinality(TokensChanged) <= 1
        /\ TokensChanged # {} =>
              /\ \E pr \in Procs : procs[pr].pc \in {"login_update", "logout_update"}
              /\ UNCHANGED <<Doujins, DoujinPages, TagSets>> ]_vars

\* what is left of a text from position i on, read character by character:
\* in "code" a quote opens a string, // a line comment and /* a block
\* comment; in "string" a backslash takes the next character with it and a
\* quote closes the string; a line comment ends before a line break and a
\* block comment after the next */.  "unclosed" where the text ends in a
\* block comment.
Kept(c, rest) == IF rest = "unclosed" THEN "unclosed" ELSE <<c>> \o rest

RECURSIVE WithoutComments(_, _, _)
WithoutComments(text, i, mode) ==
    IF i > Len(text) THEN (IF mode = "block" THEN "unclosed" ELSE <<>>)
    ELSE
    LET c == text[i]
        two == IF i < Len(text) THEN <<c, text[i + 1]>> ELSE <<c>>
    IN  CASE mode = "code" ->
               IF two = <<"/", "/">> THEN WithoutComments(text, i + 2, "line")
               ELSE IF two = <<"/", "*">> THEN WithoutComments(text, i + 2, "block")
               ELSE IF c = "\"" THEN Kept(c, WithoutComments(text, i + 1, "string"))
               ELSE Kept(c, WithoutComments(text, i + 1, "code"))
          [] mode = "string" ->
               IF c = "\\" THEN Kept(c, WithoutComments(text, i + 1, "escape"))
               ELSE IF c = "\"" THEN Kept(c, WithoutComments(text, i + 1, "code"))
               ELSE Kept(c, WithoutComments(text, i + 1, "string"))
          [] mode = "escape" -> Kept(c, WithoutComments(text, i + 1, "string"))
          [] mode = "line" ->
               IF c \in LineBreaks THEN Kept(c, WithoutComments(text, i + 1, "code"))
               ELSE WithoutComments(text, i + 1, "line")
          [] mode = "block" ->
               IF two = <<"*", "/">> THEN WithoutComments(text, i + 2, "code")
               ELSE WithoutComments(text, i + 1, "block")

Expected(text) ==
    IF WithoutComments(text, 1, "code") = "unclosed" THEN UnclosedComment
    ELSE Stripped(WithoutComments(text, 1, "code"))

\* C35: the server's removeCommentsFromJson returns the text without its line
\* comments (the line break stays) and block comments that start outside a
\* string, every other character in place, strings untouched, and returns
\* "Unclosed comment" exactly when a block comment opened outside a string is
\* never closed.
C35_ServerStrips ==
    data.kind = "server" => data.value.out = Expected(data.value.json)

\* the server has read a string holding // or an escaped quote, followed by
\* a line comment, and returned the string alone
C35_Witness ==
    /\ data.kind = "server"
    /\ data.value.json \in { <<"\"", "/", "/", "\"", "/", "/">>,
                             <<"\"", "\\", "\"", "\"", "/", "/">> }
    /\ data.value.out = Stripped(SubSeq(data.value.json, 1, 4))

\* the registered users other than the one a token was returned to
OtherUsers(token) ==
    { u \in Usernames : Matching(Users, u) # {} /\ Fold(u) # token[1] }

\* C36: a token loginUser returned for user A authenticates only as A:
\* for every other user B, authenticateUser(B, token) returns InvalidToken and
\* logoutUser(B, token) returns InvalidToken and changes no list.
C36_TokenScoped ==
    \A t \in returned :
        /\ \A u \in Usernames :
              authenticateUser(Users, u, t).err = "OK" => Fold(u) = t[1]
        /\ \A u \in OtherUsers(t) :
              /\ authenticateUser(Users, u, t).err = "InvalidToken"
              /\ LogoutUser(Users, u, t) = [err |-> "InvalidToken", users |-> Users]

\* a logout was refused with InvalidToken while a token of one user is live
\* and another user is registered
C36_Witness ==
    /\ ret.op = "logout" /\ ret.err = "InvalidToken"
    /\ \E t \in returned :
          /\ OtherUsers(t) # {}
          /\ \E u \in Usernames : authenticateUser(Users, u, t).err = "OK"

\* the page rows of a doujin are all the pages its row declares: as many rows,
\* numbered 1..N
AllPages(doujinId) ==
    /\ doujinId \in 1..Len(Doujins)
    /\ Cardinality(PagesOf(DoujinPages, doujinId)) = Doujins[doujinId].pages
    /\ { DoujinPages[k].page_number : k \in PagesOf(DoujinPages, doujinId) }
          = 1..Doujins[doujinId].pages

\* C37: the pages of an import become visible at once: the DoujinPages table
\* holds none or all N rows of a doujin, and what getDoujinMetadata,
\* getPageFilePath and searchDoujins return while an import runs shows none
\* or all of them, never a page of an import that fails.
C37_PagesAtOnce ==
    /\ \A d \in 1..Len(Doujins) : PagesOf(DoujinPages, d) = {} \/ AllPages(d)
    /\ importing.pc = "pages" => PagesOf(DoujinPages, Len(Doujins)) = {}
    /\ (data.kind = "doujin" /\ ret.op = "getDoujinMetadata" /\ ret.err = "OK") =>
          \/ data.value.pages = <<>>
          \/ /\ AllPages(data.value.id)
             /\ { data.value.pages[k][2] : k \in 1..Len(data.value.pages) }
                   = { DoujinPages[k].id : k \in PagesOf(DoujinPages, data.value.id) }
    /\ (data.kind = "path" /\ ret.op = "getPageFilePath" /\ ret.err = "OK") =>
          \E k \in 1..Len(DoujinPages) :
              DoujinPages[k].page_path = data.value /\ AllPages(DoujinPages[k].doujin_id)
    /\ (data.kind = "search" /\ ret.op = "search" /\ ret.err = "OK") =>
          \A k \in 1..Len(data.value.entries) :
              \/ data.value.entries[k].pages[1][2] = 0
              \/ AllPages(data.value.entries[k].id)

\* getDoujinMetadata has returned both pages of a doujin, and the import of a
\* folder that declares three pages has failed and left a row without pages
C37_Witness ==
    /\ data.kind = "doujin" /\ ret.op = "getDoujinMetadata" /\ ret.err = "OK"
    /\ Len(data.value.pages) = 2
    /\ \E d \in 1..Len(Doujins) :
          Doujins[d].pages = 3 /\ PagesOf(DoujinPages, d) = {}
    /\ importing.pc = "idle"

\* C38: the client's and the server's removeCommentsFromJson agree on every
\* text: the same stripped text, or "Unclosed comment" from both.
C38_SameResult ==
    data.kind \in {"server", "client"} =>
        removeCommentsFromJson(data.value.json)
            = removeCommentsFromJson_Client(data.value.json)

\* what the register handler answers when registering is disabled
Refusal == Response(401, -1, "User registering is disabled")

\* with registering disabled, a step of the register handler adds no user
RegisterAddsNone == ret'.op = "register" => Users' = Users

\* a user is added by the register-user command only
AddedByCommand ==
    Len(Users') > Len(Users) => (ret'.op = "manage register-user" /\ ret'.err = "OK")

\* the users registered with password p can log in, and the command registers
\* the valid names that are free
LoginAndCommandWork ==
    /\ \A u \in { <<"a">>, <<"b">> } :
          Matching(Users, u) # {} =>
              /\ Early("POST", TRUE, "json") = "OK"
              /\ LoginUser(Users, u, <<"p">>, FreshToken(u), FreshSalt(u)).err = "OK"
    /\ \A u \in { <<"a">>, <<"b">> } :
          Matching(Users, u) = {} =>
              /\ RegisterUser(Users, u, <<"p">>).err = "OK"
              /\ Len(RegisterUser(Users, u, <<"p">>).users) = Len(Users) + 1

\* C39 as stated: with disable_registering = true, every request to
\* /api/v1/register is answered with error_code -1 and "User registering is
\* disabled".
C39_EveryRequestRefused ==
    (ret.op = "register" /\ data.kind = "response") => data.value = Refusal

\* C39: with disable_registering = true, every POST request to
\* /api/v1/register is answered with error_code -1 and "User registering is
\* disabled" whatever its body (a request with another method is answered by
\* the method check), no request adds a user, the users registered can log in
\* and the register-user command creates users.
C39_PostRefused ==
    /\ [](/\ \A body \in Bodies :
                ResponseOf(RegisterEarly(TRUE, "POST", body)) = Refusal
          /\ (ret.op = "register" /\ data.kind = "response") =>
                /\ ret.err \in {"RegisteringDisabled", "InvalidMethod", "Options"}
                /\ data.value \in { Refusal, Response(405, -1, "Invalid method"), NoBody }
          /\ LoginAndCommandWork)
    /\ [][RegisterAddsNone /\ AddedByCommand]_vars

\* a register request was refused, and a user the command created is logged in
C39_Witness ==
    /\ ret.op = "register" /\ ret.err = "RegisteringDisabled"
    /\ data = Data("response", Refusal)
    /\ \E i \in 1..Len(Users) : Len(Slice(Users, i)) >= 1

IsSubFolder(e) == e.isDir

\* the import of this folder alone fails
Fails(folder) == RegisterDoujin(<<>>, <<>>, folder).err # "OK"

\* the sub-folders of a listing, and the place of the first that fails
\* (one past the last when none fails)
SubFolders(entries) == SelectSeq(entries, IsSubFolder)
FirstFailing(dirs) ==
    IF \A j \in 1..Len(dirs) : ~Fails(dirs[j].folder) THEN Len(dirs) + 1
    ELSE CHOOSE j \in 1..Len(dirs) :
             Fails(dirs[j].folder) /\ \A i \in 1..(j - 1) : ~Fails(dirs[i].folder)

\* the rows a mass import of dirs leaves, with the first failure at k
MassImported(dirs, k) ==
    LET base == Len(Doujins)
        added == Len(Doujins') - base
    IN  /\ SubSeq(Doujins', 1, base) = Doujins
        /\ SubSeq(DoujinPages', 1, Len(DoujinPages)) = DoujinPages
        /\ ret'.err = "OK" <=> k > Len(dirs)
        /\ k > Len(dirs) => added = Len(dirs)
        /\ k <= Len(dirs) => added \in { k - 1, k }
        /\ \A j \in 1..(k - 1) :
              /\ Doujins'[base + j].title = dirs[j].folder.meta.title
              /\ Cardinality(PagesOf(DoujinPages', base + j)) = dirs[j].folder.meta.pages
              /\ { DoujinPages'[n].page_number : n \in PagesOf(DoujinPages', base + j) }
                    = 1..dirs[j].folder.meta.pages
        /\ added = k =>
              /\ Doujins'[base + k].title = dirs[k].folder.meta.title
              /\ PagesOf(DoujinPages', base + k) = {}
        /\ \A n \in (Len(DoujinPages) + 1)..Len(DoujinPages') :
              DoujinPages'[n].doujin_id \in (base + 1)..(base + k - 1)

\* C40: manage import-doujins-from imports the sub-folders in the order of the
\* listing and stops at the first whose import fails: the sub-folders before
\* it are imported with all their pages, the failing one leaves at most a row
\* without pages, none after it is imported, and the entries that are no
\* directories are skipped.
C40_MassImport ==
    [][ret'.op = "import-doujins-from" =>
          MassImported(SubFolders(data'.value), FirstFailing(SubFolders(data'.value)))]_vars

\* a listing of a folder that imports, one that fails after its row was
\* inserted and another that would import: the run has failed and left one
\* doujin with its two pages and one row without pages
C40_Witness ==
    /\ ret.op = "import-doujins-from" /\ ret.err # "OK"
    /\ data = Data("listing", << SubFolder(FolderB), SubFolder(FolderMissing),
                                 SubFolder(FolderB) >>)
    /\ Len(Doujins) = 2 /\ Len(DoujinPages) = 2

====
